---- MODULE Spec2Model ----
(***************************************************************************)
(* Model of the data preparation of demetra / agrifield:                   *)
(*   demetra/grid/builder.py      build_acre_grid, assign_points_to_grid,  *)
(*                                build_field_grid                         *)
(*   agrifield/grid/operations.py filter_phantom_acres,                    *)
(*                                merge_nitrogen_into_grid                 *)
(*   agrifield/external/weather.py  _request_with_retry, fetch_rainfall,   *)
(*                                add_rainfall_to_grid                     *)
(*   agrifield/external/soil.py   add_soil_to_grid                         *)
(*   demetra/geo/transforms.py    add_latlon_to_grid                       *)
(*   demetra/ingest/nitrogen_loader.py  combine_multiple_n_files           *)
(*   agrifield/ingest/yield_loader.py   clean_jd_yield_dataframe,          *)
(*                                load_yield_points                        *)
(*   agrifield/modeling/features.py     build_feature_matrix               *)
(*   agrifield/pipeline.py        build_field_dataset                      *)
(*                                                                         *)
(* Data frames are sequences of records (one record per row, in row        *)
(* order).  Coordinates and cell sizes are integers (fixed-point length    *)
(* units); cell sizes are even so that a cell centre x_min + cell_size/2   *)
(* is a representable coordinate.  Means, medians and cut-offs are exact   *)
(* rationals [num, den]; NaN / null is the record with nan = TRUE.         *)
(***************************************************************************)
EXTENDS Integers, Sequences, FiniteSets, TLC

VARIABLES
    pc,                   \* position of the caller in the pipeline
    yield_df,             \* the yield points: rows [x, y, yield_bu_ac, farm, field]
    cell_size,            \* side of a grid cell
    grid,                 \* the grid data frame after the last step
    grid_in,              \* the grid data frame handed to the last step
    nitrogen_df,          \* the nitrogen points: rows [x, y, nitrogen_lb_ac]
    min_density_percent,  \* the phantom filter's fraction, a rational [num, den]
    log,                  \* the calls made so far, in order
    retry,                \* the frame of _request_with_retry
    arg,                  \* the argument of a function called on its own
    ret,                  \* what that function returned
    merge_arg,            \* the caller's frame handed to merge_nitrogen_into_grid,
                          \* as the call left it
    soil                  \* the frame of add_soil_to_grid: the row at hand, the
                          \* answers so far and the request loop of the query

vars == <<pc, yield_df, cell_size, grid, grid_in, nitrogen_df, min_density_percent,
          log, retry, arg, ret, merge_arg, soil>>

----------------------------------------------------------------------------
(* Bounds of the model.                                                    *)

MaxPoints == 2      \* most yield points in a field
MaxX == 2           \* x coordinates of yield points are 0..MaxX
MaxY == 3           \* y coordinates of yield points are 0..MaxY
MaxCells == 5       \* most cells of a grid handed to the phantom filter alone
MaxCols == 2        \* most columns of a grid handed to the nitrogen merge alone
MaxRows == 2        \* most rows of such a grid

CellSizes == {2, 4}
Yields == {1, 2}
ScenarioYields == {1, 2, 4}
NitrogenRates == {5, 7}
Counts == {0, 1, 2, 7}      \* n_points of a cell handed to the phantom filter alone

\* settings.phantom_density = 0.15
phantom_density == [num |-> 15, den |-> 100]

DensityFractions == {phantom_density, [num |-> 1, den |-> 2], [num |-> 1, den |-> 1]}

----------------------------------------------------------------------------
(* Numbers, sequences, rationals.                                          *)

Range(s) == {s[i] : i \in DOMAIN s}

SetMin(S) == CHOOSE m \in S : \A v \in S : m <= v

SetMax(S) == CHOOSE m \in S : \A v \in S : m >= v

RECURSIVE SeqSum(_)
SeqSum(s) == IF s = <<>> THEN 0 ELSE Head(s) + SeqSum(Tail(s))

Column(df, name) == [i \in DOMAIN df |-> df[i][name]]

NaN == [nan |-> TRUE, num |-> 0, den |-> 1]

Rat(n, d) == [nan |-> FALSE, num |-> n, den |-> d]

\* equality of two float values held as rationals; NaN equals nothing
RatEq(a, b) == ~a.nan /\ ~b.nan /\ a.num * b.den = b.num * a.den

IsNull(a) == a.nan

\* pandas Series.mean of a non-empty series
Mean(s) == Rat(SeqSum(s), Len(s))

\* numpy floor(n / d) for d > 0
FloorDiv(n, d) == n \div d

\* numpy round(n / d) for d > 0: to nearest, ties to the even integer
Round(n, d) ==
    LET q == n \div d
        r == n % d
    IN  IF 2 * r < d THEN q
        ELSE IF 2 * r > d THEN q + 1
        ELSE IF q % 2 = 0 THEN q ELSE q + 1

\* f"{i:05d}": the decimal digits of i, zero-padded on the left to width 5
RECURSIVE Digits(_)
Digits(i) == IF i < 10 THEN <<i>> ELSE Append(Digits(i \div 10), i % 10)

RECURSIVE ZeroPad(_, _)
ZeroPad(ds, width) == IF Len(ds) >= width THEN ds ELSE ZeroPad(<<0>> \o ds, width)

Format05d(i) == ZeroPad(Digits(i), 5)

----------------------------------------------------------------------------
(* demetra/grid/builder.py                                                 *)

\* mutant: the stop value is included (<= instead of <)
RECURSIVE arange_inclusive(_, _, _)
arange_inclusive(start, stop, step) ==
    IF start <= stop THEN <<start>> \o arange_inclusive(start + step, stop, step) ELSE <<>>

\* mutant: only whole steps that fit below stop are kept (round down)
RECURSIVE arange_floor(_, _, _)
arange_floor(start, stop, step) ==
    IF start + step <= stop THEN <<start>> \o arange_floor(start + step, stop, step) ELSE <<>>

\* np.arange(start, stop, step), step > 0: start, start+step, ... while < stop
RECURSIVE arange(_, _, _)
arange(start, stop, step) ==
    IF start < stop THEN <<start>> \o arange(start + step, stop, step) ELSE <<>>

\* mutant: the cells are generated column by column
x_min_flat_column_major(x_edges, y_edges) ==
    [i \in 1..(Len(x_edges) * Len(y_edges)) |-> x_edges[((i - 1) \div Len(y_edges)) + 1]]

\* np.meshgrid(x_edges, y_edges) raveled: row-major, rows outer, columns inner
x_min_flat(x_edges, y_edges) ==
    [i \in 1..(Len(x_edges) * Len(y_edges)) |-> x_edges[((i - 1) % Len(x_edges)) + 1]]

y_min_flat(x_edges, y_edges) ==
    [i \in 1..(Len(x_edges) * Len(y_edges)) |-> y_edges[((i - 1) \div Len(x_edges)) + 1]]

\* the data frame of lines 39-50: one row per cell origin
grid_frame(farm, field, x_edges, y_edges, size, units) ==
    LET xs == x_min_flat(x_edges, y_edges)
        ys == y_min_flat(x_edges, y_edges)
    IN  [i \in 1..(Len(x_edges) * Len(y_edges)) |->
            [farm |-> farm, field |-> field,
             acre_id |-> Format05d(i - 1),
             x_min |-> xs[i], x_max |-> xs[i] + size,
             y_min |-> ys[i], y_max |-> ys[i] + size,
             x_center |-> xs[i] + size \div 2,
             y_center |-> ys[i] + size \div 2,
             units |-> units]]

\* build_acre_grid on a non-empty yield_df
build_acre_grid(df, size, units) ==
    LET min_x == SetMin(Range(Column(df, "x")))
        max_x == SetMax(Range(Column(df, "x")))
        min_y == SetMin(Range(Column(df, "y")))
        max_y == SetMax(Range(Column(df, "y")))
        x_edges == arange(min_x, max_x, size)
        y_edges == arange(min_y, max_y, size)
    IN  grid_frame(df[1].farm, df[1].field, x_edges, y_edges, size, units)

\* the geometry every keyed join reads off the grid (builder.py 63-65, 72-77)
grid_cell_size(g) == g[1].x_max - g[1].x_min

grid_x_origin(g) == SetMin(Range(Column(g, "x_min")))

grid_y_origin(g) == SetMin(Range(Column(g, "y_min")))

\* mutant: points are rounded like cells instead of floored
point_index_round(v, origin, size) == Round(v - origin, size)

\* mutant: points are binned by the ceiling of their offset
point_index_ceil(v, origin, size) == -FloorDiv(origin - v, size)

\* np.floor((x - origin) / cell_size).astype(int)
point_index(v, origin, size) == FloorDiv(v - origin, size)

\* np.round((x_min - origin) / cell_size).astype(int)
cell_index(v, origin, size) == Round(v - origin, size)

grid_col(g) == [i \in DOMAIN g |-> cell_index(g[i].x_min, grid_x_origin(g), grid_cell_size(g))]

grid_row(g) == [i \in DOMAIN g |-> cell_index(g[i].y_min, grid_y_origin(g), grid_cell_size(g))]

\* builder.py 76: num_cols = grid_col.max() + 1
assign_num_cols(g) == SetMax(Range(grid_col(g))) + 1

make_key(row, col, num_cols) == row * num_cols + col

grid_key(g, num_cols) == [i \in DOMAIN g |-> make_key(grid_row(g)[i], grid_col(g)[i], num_cols)]

point_key(df, g, num_cols) ==
    [p \in DOMAIN df |->
        make_key(point_index(df[p].y, grid_y_origin(g), grid_cell_size(g)),
                 point_index(df[p].x, grid_x_origin(g), grid_cell_size(g)),
                 num_cols)]

\* the values of the rows of a keyed frame whose key is k, in row order
RECURSIVE values_with_key(_, _, _)
values_with_key(keys, values, k) ==
    IF keys = <<>> THEN <<>>
    ELSE (IF Head(keys) = k THEN <<Head(values)>> ELSE <<>>)
         \o values_with_key(Tail(keys), Tail(values), k)

\* mutant: inner join, cells matching no point are lost
assign_points_inner(df, g) ==
    LET num_cols == assign_num_cols(g)
        gk == grid_key(g, num_cols)
        pk == point_key(df, g, num_cols)
        ys == Column(df, "yield_bu_ac")
        joined == [i \in DOMAIN g |->
                      LET matched == values_with_key(pk, ys, gk[i])
                      IN  g[i] @@ [mean_yield_bu_ac |-> IF matched = <<>> THEN NaN ELSE Mean(matched),
                                   n_points |-> Len(matched)]]
    IN  SelectSeq(joined, LAMBDA c : c.n_points > 0)

\* assign_points_to_grid on a non-empty grid: groupby(key).agg(mean, count),
\* left merge onto the grid, n_points.fillna(0)
assign_points_to_grid(df, g) ==
    LET num_cols == assign_num_cols(g)
        gk == grid_key(g, num_cols)
        pk == point_key(df, g, num_cols)
        ys == Column(df, "yield_bu_ac")
    IN  [i \in DOMAIN g |->
            LET matched == values_with_key(pk, ys, gk[i])
            IN  g[i] @@ [mean_yield_bu_ac |-> IF matched = <<>> THEN NaN ELSE Mean(matched),
                         n_points |-> Len(matched)]]

\* df[mask].reset_index(drop=True)
RECURSIVE select_rows(_, _)
select_rows(df, mask) ==
    IF df = <<>> THEN <<>>
    ELSE (IF Head(mask) THEN <<Head(df)>> ELSE <<>>) \o select_rows(Tail(df), Tail(mask))

\* mutant: the assigned grid is returned unpruned
keep_every_cell(g) == g

\* build_field_grid line 112: keep only cells that received yield data
keep_populated(g) == select_rows(g, [i \in DOMAIN g |-> g[i].n_points > 0])

----------------------------------------------------------------------------
(* agrifield/grid/operations.py                                            *)

RECURSIVE insert_sorted(_, _)
insert_sorted(v, s) ==
    IF s = <<>> THEN <<v>>
    ELSE IF v <= Head(s) THEN <<v>> \o s
    ELSE <<Head(s)>> \o insert_sorted(v, Tail(s))

RECURSIVE sorted(_)
sorted(s) == IF s = <<>> THEN <<>> ELSE insert_sorted(Head(s), sorted(Tail(s)))

\* mutant: the lower of the two middle values for an even count
median_lower(s) == Rat(sorted(s)[(Len(s) + 1) \div 2], 1)

\* pandas Series.median of a non-empty integer series: the middle value of the
\* sorted series, or the mean of the two middle values
median(s) ==
    LET o == sorted(s)
        n == Len(s)
    IN  IF n % 2 = 1 THEN Rat(o[(n + 1) \div 2], 1)
        ELSE Rat(o[n \div 2] + o[n \div 2 + 1], 2)

\* median_points * min_density_percent
RatMul(a, b) == Rat(a.num * b.num, a.den * b.den)

\* n >= r for an integer n and a rational r with a positive denominator
GeRat(n, r) == n * r.den >= r.num

\* mutant: the cut-off is taken from the largest n_points, not the median
filter_phantom_max_cutoff(df, fraction) ==
    IF Len(df) = 0 THEN df
    ELSE LET cutoff == RatMul(Rat(SetMax(Range(Column(df, "n_points"))), 1), fraction)
         IN  select_rows(df, [i \in DOMAIN df |-> GeRat(df[i].n_points, cutoff)])

\* mutant: the comparison with the cut-off is strict
filter_phantom_strict(df, fraction) ==
    IF Len(df) = 0 THEN df
    ELSE LET cutoff == RatMul(median(Column(df, "n_points")), fraction)
         IN  select_rows(df, [i \in DOMAIN df |-> df[i].n_points * cutoff.den > cutoff.num])

filter_phantom_acres(df, fraction) ==
    IF Len(df) = 0 THEN df
    ELSE LET median_points == median(Column(df, "n_points"))
             cutoff == RatMul(median_points, fraction)
         IN  select_rows(df, [i \in DOMAIN df |-> GeRat(df[i].n_points, cutoff)])

\* mutant: the median is computed on a frame of zero rows as well
filter_calls_unguarded(df) ==
    <<"filter_phantom_acres", "median">>

\* the calls filter_phantom_acres makes: lines 18-19 return before the median
\* of line 21 when the frame has no rows
filter_calls(df) ==
    IF Len(df) = 0 THEN <<"filter_phantom_acres">>
    ELSE <<"filter_phantom_acres", "median">>

\* mutant: no copy is taken, the helper column _key is assigned to the
\* caller's frame
merge_nitrogen_argument_no_copy(grid_df, n_df) ==
    IF grid_df = <<>> THEN grid_df
    ELSE LET size == grid_df[1].x_max - grid_df[1].x_min
             x_origin == SetMin(Range(Column(grid_df, "x_min")))
             y_origin == SetMin(Range(Column(grid_df, "y_min")))
             num_cols == Round(SetMax(Range(Column(grid_df, "x_min"))) - x_origin, size) + 1
             g_col == [i \in DOMAIN grid_df |-> Round(grid_df[i].x_min - x_origin, size)]
             g_row == [i \in DOMAIN grid_df |-> Round(grid_df[i].y_min - y_origin, size)]
         IN  [i \in DOMAIN grid_df |->
                 grid_df[i] @@ [_key |-> g_row[i] * num_cols + g_col[i]]]

\* what merge_nitrogen_into_grid leaves in the frame it was handed: line 40
\* works on df = grid_df.copy(), so the _key column of line 58 and the merge
\* never reach grid_df (nor does the IndexError of line 41 on zero rows)
merge_nitrogen_argument(grid_df, n_df) == grid_df

\* mutant: the origin is read off the first row instead of the minimum
merge_nitrogen_first_row_origin(grid_df, n_df) ==
    LET size == grid_df[1].x_max - grid_df[1].x_min
        x_origin == grid_df[1].x_min
        y_origin == grid_df[1].y_min
        n_col_idx == [p \in DOMAIN n_df |-> FloorDiv(n_df[p].x - x_origin, size)]
        n_row_idx == [p \in DOMAIN n_df |-> FloorDiv(n_df[p].y - y_origin, size)]
        num_cols == Round(SetMax(Range(Column(grid_df, "x_min"))) - x_origin, size) + 1
        n_key == [p \in DOMAIN n_df |-> n_row_idx[p] * num_cols + n_col_idx[p]]
        rates == Column(n_df, "nitrogen_lb_ac")
        g_col == [i \in DOMAIN grid_df |-> Round(grid_df[i].x_min - x_origin, size)]
        g_row == [i \in DOMAIN grid_df |-> Round(grid_df[i].y_min - y_origin, size)]
        key == [i \in DOMAIN grid_df |-> g_row[i] * num_cols + g_col[i]]
    IN  [i \in DOMAIN grid_df |->
            LET matched == values_with_key(n_key, rates, key[i])
            IN  grid_df[i] @@
                [mean_nitrogen_lb_ac |-> IF matched = <<>> THEN NaN ELSE Mean(matched)]]

\* merge_nitrogen_into_grid on a non-empty grid: bin the nitrogen points,
\* groupby(key).mean(), left merge onto the grid
merge_nitrogen_into_grid(grid_df, n_df) ==
    LET size == grid_df[1].x_max - grid_df[1].x_min
        x_origin == SetMin(Range(Column(grid_df, "x_min")))
        y_origin == SetMin(Range(Column(grid_df, "y_min")))
        n_col_idx == [p \in DOMAIN n_df |-> FloorDiv(n_df[p].x - x_origin, size)]
        n_row_idx == [p \in DOMAIN n_df |-> FloorDiv(n_df[p].y - y_origin, size)]
        num_cols == Round(SetMax(Range(Column(grid_df, "x_min"))) - x_origin, size) + 1
        n_key == [p \in DOMAIN n_df |-> n_row_idx[p] * num_cols + n_col_idx[p]]
        rates == Column(n_df, "nitrogen_lb_ac")
        g_col == [i \in DOMAIN grid_df |-> Round(grid_df[i].x_min - x_origin, size)]
        g_row == [i \in DOMAIN grid_df |-> Round(grid_df[i].y_min - y_origin, size)]
        key == [i \in DOMAIN grid_df |-> g_row[i] * num_cols + g_col[i]]
    IN  [i \in DOMAIN grid_df |->
            LET matched == values_with_key(n_key, rates, key[i])
            IN  grid_df[i] @@
                [mean_nitrogen_lb_ac |-> IF matched = <<>> THEN NaN ELSE Mean(matched)]]

----------------------------------------------------------------------------
(* The pipeline from yield points to the field grid.                       *)

PointRows(xs, ys) ==
    [x : xs, y : ys, yield_bu_ac : Yields, farm : {"farm"}, field : {"field"}]

SeqsUpTo(S, n) == UNION {[1..k -> S] : k \in 0..n}

Init ==
    /\ pc = "start"
    /\ yield_df \in SeqsUpTo(PointRows(0..MaxX, 0..MaxY), MaxPoints)
    /\ cell_size \in CellSizes
    /\ grid = <<>>
    /\ grid_in = <<>>
    /\ nitrogen_df = <<>>
    /\ min_density_percent = phantom_density
    /\ log = <<>>
    /\ retry = <<>>
    /\ arg = <<>>
    /\ ret = <<>>
    /\ merge_arg = <<>>
    /\ soil = <<>>

\* mutant: an empty yield_df gives a grid of zero rows instead of an error
BuildAcreGridEmptyGrid ==
    /\ pc = "start"
    /\ pc' = "built"
    /\ grid' = IF yield_df = <<>> THEN <<>> ELSE build_acre_grid(yield_df, cell_size, "meters")
    /\ grid_in' = grid
    /\ log' = Append(log, "build_acre_grid")
    /\ UNCHANGED <<merge_arg, soil, yield_df, cell_size, nitrogen_df, min_density_percent, retry, arg, ret>>

\* build_field_grid line 108.  On an empty yield_df min()/max() are NaN and
\* np.arange raises ValueError.
BuildAcreGrid ==
    /\ pc = "start"
    /\ IF yield_df = <<>>
       THEN /\ pc' = "raised"
            /\ UNCHANGED grid
       ELSE /\ pc' = "built"
            /\ grid' = build_acre_grid(yield_df, cell_size, "meters")
    /\ grid_in' = grid
    /\ log' = Append(log, "build_acre_grid")
    /\ UNCHANGED <<merge_arg, soil, yield_df, cell_size, nitrogen_df, min_density_percent, retry, arg, ret>>

\* build_field_grid line 109.  On a grid of zero rows grid["x_max"].iloc[0]
\* raises IndexError.
AssignPointsToGrid ==
    /\ pc = "built"
    /\ IF grid = <<>>
       THEN /\ pc' = "raised"
            /\ UNCHANGED grid
       ELSE /\ pc' = "assigned"
            /\ grid' = assign_points_to_grid(yield_df, grid)
    /\ grid_in' = grid
    /\ log' = Append(log, "assign_points_to_grid")
    /\ UNCHANGED <<merge_arg, soil, yield_df, cell_size, nitrogen_df, min_density_percent, retry, arg, ret>>

\* build_field_grid lines 112-114
KeepPopulated ==
    /\ pc = "assigned"
    /\ pc' = "field_grid"
    /\ grid' = keep_populated(grid)
    /\ grid_in' = grid
    /\ log' = Append(log, "keep_populated")
    /\ UNCHANGED <<merge_arg, soil, yield_df, cell_size, nitrogen_df, min_density_percent, retry, arg, ret>>

\* pipeline.py line 45 (and any other call of filter_phantom_acres)
FilterPhantomAcres ==
    /\ pc = "field_grid"
    /\ pc' = "filtered"
    /\ grid' = filter_phantom_acres(grid, min_density_percent)
    /\ grid_in' = grid
    /\ log' = log \o filter_calls(grid)
    /\ UNCHANGED <<merge_arg, soil, yield_df, cell_size, nitrogen_df, min_density_percent, retry, arg, ret>>

Next == BuildAcreGrid \/ AssignPointsToGrid \/ KeepPopulated \/ FilterPhantomAcres

Spec == Init /\ [][Next]_vars

----------------------------------------------------------------------------
(* The phantom filter on its own: an assigned grid is drawn and the filter *)
(* is applied to it, and then once more to its own result.                 *)

\* an assigned grid of one row of cells with the given n_points
assigned_row(counts, size) ==
    LET cells == grid_frame("farm", "field", arange(0, Len(counts) * size, size), <<0>>,
                            size, "meters")
    IN  [i \in DOMAIN cells |->
            cells[i] @@ [mean_yield_bu_ac |-> IF counts[i] = 0 THEN NaN ELSE Rat(counts[i], 1),
                         n_points |-> counts[i]]]

InitFilter ==
    /\ pc = "field_grid"
    /\ yield_df = <<>>
    /\ cell_size \in CellSizes
    /\ \E counts \in SeqsUpTo(Counts, MaxCells) : grid = assigned_row(counts, cell_size)
    /\ grid_in = <<>>
    /\ nitrogen_df = <<>>
    /\ min_density_percent \in DensityFractions
    /\ log = <<>>
    /\ retry = <<>>
    /\ arg = <<>>
    /\ ret = <<>>
    /\ merge_arg = <<>>
    /\ soil = <<>>

FilterPhantomAcresAgain ==
    /\ pc = "filtered"
    /\ pc' = "filtered_twice"
    /\ grid' = filter_phantom_acres(grid, min_density_percent)
    /\ grid_in' = grid
    /\ log' = log \o filter_calls(grid)
    /\ UNCHANGED <<merge_arg, soil, yield_df, cell_size, nitrogen_df, min_density_percent, retry, arg, ret>>

NextFilter == FilterPhantomAcres \/ FilterPhantomAcresAgain

SpecFilter == InitFilter /\ [][NextFilter]_vars

----------------------------------------------------------------------------
(* The nitrogen merge on its own: a field grid is drawn, the cells of a    *)
(* built grid that survived keep_populated and the phantom filter, and one *)
(* nitrogen point is merged into it.                                       *)

\* the rows of a built grid of the given shape that survived, each holding one
\* yield point
surviving_grid(cols, rows, size, mask) ==
    LET cells == grid_frame("farm", "field", arange(0, cols * size, size),
                            arange(0, rows * size, size), size, "meters")
        full == [i \in DOMAIN cells |->
                    cells[i] @@ [mean_yield_bu_ac |-> Rat(1, 1), n_points |-> 1]]
    IN  select_rows(full, mask)

InitMerge ==
    /\ pc = "merge_ready"
    /\ yield_df = <<>>
    /\ cell_size \in CellSizes
    /\ \E cols \in 1..MaxCols, rows \in 1..MaxRows :
           \E mask \in [1..(cols * rows) -> BOOLEAN] :
               grid = surviving_grid(cols, rows, cell_size, mask)
    /\ grid_in = <<>>
    /\ nitrogen_df = <<>>
    /\ min_density_percent = phantom_density
    /\ log = <<>>
    /\ retry = <<>>
    /\ arg = <<>>
    /\ ret = <<>>
    /\ merge_arg = <<>>
    /\ soil = <<>>

NitrogenRows(size) ==
    [x : (-1)..(MaxCols * size), y : (-1)..(MaxRows * size), nitrogen_lb_ac : NitrogenRates]

\* pipeline.py line 67.  On a grid of zero rows df["x_max"].iloc[0] raises
\* IndexError.
MergeNitrogenIntoGrid ==
    /\ pc = "merge_ready"
    /\ \E pt \in NitrogenRows(cell_size) : nitrogen_df' = <<pt>>
    /\ IF grid = <<>>
       THEN /\ pc' = "raised"
            /\ UNCHANGED grid
       ELSE /\ pc' = "merged"
            /\ grid' = merge_nitrogen_into_grid(grid, nitrogen_df')
    /\ merge_arg' = merge_nitrogen_argument(grid, nitrogen_df')
    /\ grid_in' = grid
    /\ log' = Append(log, "merge_nitrogen_into_grid")
    /\ UNCHANGED <<soil, yield_df, cell_size, min_density_percent, retry, arg, ret>>

NextMerge == MergeNitrogenIntoGrid

SpecMerge == InitMerge /\ [][NextMerge]_vars

----------------------------------------------------------------------------
(* The scenario of four corner points with cell_size = 10.                 *)

ScenarioCorners == <<[x |-> 0, y |-> 0], [x |-> 10, y |-> 0], [x |-> 0, y |-> 10], [x |-> 10, y |-> 10]>>

InitScenario ==
    /\ pc = "start"
    /\ \E m \in [1..4 -> ScenarioYields] :
           yield_df = [p \in 1..4 |->
                          [x |-> ScenarioCorners[p].x, y |-> ScenarioCorners[p].y,
                           yield_bu_ac |-> m[p], farm |-> "farm", field |-> "field"]]
    /\ cell_size = 10
    /\ grid = <<>>
    /\ grid_in = <<>>
    /\ nitrogen_df = <<>>
    /\ min_density_percent = phantom_density
    /\ log = <<>>
    /\ retry = <<>>
    /\ arg = <<>>
    /\ ret = <<>>
    /\ merge_arg = <<>>
    /\ soil = <<>>

SpecScenario == InitScenario /\ [][Next]_vars

----------------------------------------------------------------------------
(* build_acre_grid on its own, on fields wide and tall enough for grids of *)
(* several columns and several rows; the two points span the extent.       *)

MaxBuildX == 5      \* x coordinates of the two points are 0..MaxBuildX
MaxBuildY == 5      \* y coordinates of the two points are 0..MaxBuildY

InitBuild ==
    /\ pc = "start"
    /\ \E a, b \in PointRows(0..MaxBuildX, 0..MaxBuildY) :
           /\ a.yield_bu_ac = 1
           /\ b.yield_bu_ac = 1
           /\ yield_df = <<a, b>>
    /\ cell_size \in CellSizes
    /\ grid = <<>>
    /\ grid_in = <<>>
    /\ nitrogen_df = <<>>
    /\ min_density_percent = phantom_density
    /\ log = <<>>
    /\ retry = <<>>
    /\ arg = <<>>
    /\ ret = <<>>
    /\ merge_arg = <<>>
    /\ soil = <<>>

NextBuild == BuildAcreGrid

SpecBuild == InitBuild /\ [][NextBuild]_vars

----------------------------------------------------------------------------
(* _request_with_retry (weather.py 18-44), one loop step at a time.  The   *)
(* frame retry holds the arguments, the loop variable and what the call    *)
(* has done so far; outcomes[k] is what the k-th request meets if it is    *)
(* made: status 200, another status, or a requests.RequestException.       *)

MaxRetries == 3     \* max_retries is 0..MaxRetries

AttemptOutcomes == {"ok", "http_error", "request_exception"}
Backoffs == {2, 3}

open_meteo_max_retries == 3
open_meteo_backoff == 2
ssurgo_max_retries == 3
ssurgo_backoff == 2

RECURSIVE Pow(_, _)
Pow(b, e) == IF e = 0 THEN 1 ELSE b * Pow(b, e - 1)

\* mutant: a response of status 200 is not returned
returns_response_never(outcome) == FALSE

\* lines 29-30: the response is returned when its status is 200
returns_response(outcome) == outcome = "ok"

\* mutant: the wait does not grow with the attempt
backoff_wait_constant(backoff, attempt) == backoff

\* line 39
backoff_wait(backoff, attempt) == Pow(backoff, attempt)

InitRetry ==
    /\ pc = "retry_loop"
    /\ \E m \in 0..MaxRetries, b \in Backoffs :
           \E o \in [1..m -> AttemptOutcomes] :
               retry = [max_retries |-> m, backoff |-> b, outcomes |-> o,
                        attempt |-> 1, requests |-> 0, sleeps |-> <<>>,
                        result |-> "pending"]
    /\ yield_df = <<>>
    /\ cell_size = 2
    /\ grid = <<>>
    /\ grid_in = <<>>
    /\ nitrogen_df = <<>>
    /\ min_density_percent = phantom_density
    /\ log = <<>>
    /\ arg = <<>>
    /\ ret = <<>>
    /\ merge_arg = <<>>
    /\ soil = <<>>

\* lines 26-36: one iteration makes one request
RetryRequest ==
    /\ pc = "retry_loop"
    /\ retry.attempt <= retry.max_retries
    /\ IF returns_response(retry.outcomes[retry.attempt])
       THEN /\ retry' = [retry EXCEPT !.requests = @ + 1, !.result = "response"]
            /\ pc' = "retry_returned"
       ELSE /\ retry' = [retry EXCEPT !.requests = @ + 1]
            /\ pc' = "retry_failed"
    /\ log' = Append(log, "request")
    /\ UNCHANGED <<merge_arg, soil, yield_df, cell_size, grid, grid_in, nitrogen_df, min_density_percent,
                   arg, ret>>

\* lines 38-41: after a failed attempt that is not the last, sleep; then the
\* loop variable advances
RetryBackoff ==
    /\ pc = "retry_failed"
    /\ IF retry.attempt < retry.max_retries
       THEN /\ retry' = [retry EXCEPT
                            !.sleeps = Append(@, backoff_wait(retry.backoff, retry.attempt)),
                            !.attempt = @ + 1]
            /\ log' = Append(log, "sleep")
       ELSE /\ retry' = [retry EXCEPT !.attempt = @ + 1]
            /\ UNCHANGED log
    /\ pc' = "retry_loop"
    /\ UNCHANGED <<merge_arg, soil, yield_df, cell_size, grid, grid_in, nitrogen_df, min_density_percent,
                   arg, ret>>

\* lines 43-44: the loop is exhausted
RetryExhausted ==
    /\ pc = "retry_loop"
    /\ retry.attempt > retry.max_retries
    /\ retry' = [retry EXCEPT !.result = "None"]
    /\ pc' = "retry_returned"
    /\ UNCHANGED <<merge_arg, soil, yield_df, cell_size, grid, grid_in, nitrogen_df, min_density_percent,
                   log, arg, ret>>

NextRetry == RetryRequest \/ RetryBackoff \/ RetryExhausted

SpecRetry == InitRetry /\ [][NextRetry]_vars

\* the loop is sequential code: it takes its next step whenever it has one
SpecRetryFair == SpecRetry /\ WF_vars(NextRetry)

----------------------------------------------------------------------------
(* combine_multiple_n_files (nitrogen_loader.py 66-101) on its own.  Here  *)
(* a coordinate is a whole number of hundredths of a metre, so that        *)
(* rounding to one decimal is rounding to a multiple of 10.  A pass is     *)
(* what load_nitrogen_shapefile made of one shapefile: has_rate is FALSE   *)
(* when it returned None, else rows are its points.                        *)

MaxPasses == 2        \* most shapefiles in shp_list
MaxPassPoints == 2    \* most points of one pass

\* (0.04, 0.05) and (0, 0) round to (0.0, 0.0); (0.15, 0.06) to (0.2, 0.1)
NitrogenPassPoints ==
    {[x |-> 4, y |-> 5, nitrogen_lb_ac |-> 5],
     [x |-> 0, y |-> 0, nitrogen_lb_ac |-> 7],
     [x |-> 15, y |-> 6, nitrogen_lb_ac |-> 5]}

PassFrames ==
    {[has_rate |-> FALSE, rows |-> <<>>]} \cup
    [has_rate : {TRUE}, rows : SeqsUpTo(NitrogenPassPoints, MaxPassPoints)]

\* Series.round(1): to the nearest tenth, halves to the even tenth
round_1(v) == Round(v, 10) * 10

\* lines 77-81: the passes that loaded, in order
RECURSIVE loaded_frames(_)
loaded_frames(passes) ==
    IF passes = <<>> THEN <<>>
    ELSE (IF passes[1].has_rate THEN <<passes[1].rows>> ELSE <<>>)
         \o loaded_frames(Tail(passes))

\* pd.concat(dfs, ignore_index=True)
RECURSIVE concat(_)
concat(dfs) == IF dfs = <<>> THEN <<>> ELSE dfs[1] \o concat(Tail(dfs))

\* the order of the group keys: by x_round, then by y_round
key_less(a, b) == a[1] < b[1] \/ (a[1] = b[1] /\ a[2] < b[2])

RECURSIVE sorted_keys(_)
sorted_keys(S) ==
    IF S = {} THEN <<>>
    ELSE LET m == CHOOSE a \in S : \A b \in S \ {a} : key_less(a, b)
         IN  <<m>> \o sorted_keys(S \ {m})

\* groupby(["x_round", "y_round"])["nitrogen_lb_ac"].sum() for one group
group_sum(df_all, key) ==
    SeqSum(Column(select_rows(df_all,
                              [i \in DOMAIN df_all |->
                                  <<round_1(df_all[i].x), round_1(df_all[i].y)>> = key]),
                  "nitrogen_lb_ac"))

combine_multiple_n_files(shp_list) ==
    LET dfs == loaded_frames(shp_list)
        df_all == concat(dfs)
        keys == sorted_keys({<<round_1(df_all[i].x), round_1(df_all[i].y)>> :
                                 i \in DOMAIN df_all})
    IN  IF dfs = <<>> THEN [is_none |-> TRUE, rows |-> <<>>]
        ELSE [is_none |-> FALSE,
              rows |-> [k \in DOMAIN keys |->
                           [x |-> keys[k][1], y |-> keys[k][2],
                            nitrogen_lb_ac |-> group_sum(df_all, keys[k])]]]

InitCombine ==
    /\ pc = "combine_ready"
    /\ arg \in SeqsUpTo(PassFrames, MaxPasses)
    /\ ret = <<>>
    /\ merge_arg = <<>>
    /\ soil = <<>>
    /\ yield_df = <<>>
    /\ cell_size = 2
    /\ grid = <<>>
    /\ grid_in = <<>>
    /\ nitrogen_df = <<>>
    /\ min_density_percent = phantom_density
    /\ log = <<>>
    /\ retry = <<>>

CombineMultipleNFiles ==
    /\ pc = "combine_ready"
    /\ pc' = "combined"
    /\ ret' = combine_multiple_n_files(arg)
    /\ log' = Append(log, "combine_multiple_n_files")
    /\ UNCHANGED <<merge_arg, soil, yield_df, cell_size, grid, grid_in, nitrogen_df, min_density_percent,
                   retry, arg>>

NextCombine == CombineMultipleNFiles

SpecCombine == InitCombine /\ [][NextCombine]_vars

----------------------------------------------------------------------------
(* clean_jd_yield_dataframe (yield_loader.py 16-46) on its own.  A raw     *)
(* frame is its set of optional columns and its rows; a row holds "absent" *)
(* in a column the frame does not have.  Yields are in bu/ac, speeds in    *)
(* 1/10000 m/s, dry matter and moisture in percent.                        *)

MaxRawRows == 2     \* most rows of a raw yield frame

yield_min == 50
yield_max == 350
speed_threshold == 2235
dry_matter_max == 100
moisture_max == 40

OptionalColumns == {"VEHICLSPEED", "DRYMATTER", "Moisture"}
RawYields == {0, 49, 50, 350, 351}
RawSpeeds == {2235, 2236}
RawDryMatters == {99, 100}
RawMoistures == {40, 41}

RawRows(columns) ==
    [yield_bu_ac : RawYields,
     VEHICLSPEED : IF "VEHICLSPEED" \in columns THEN RawSpeeds ELSE {"absent"},
     DRYMATTER : IF "DRYMATTER" \in columns THEN RawDryMatters ELSE {"absent"},
     Moisture : IF "Moisture" \in columns THEN RawMoistures ELSE {"absent"}]

\* mutant: a dry matter of exactly dry_matter_max is kept
dry_matter_filter_inclusive(rows) ==
    select_rows(rows, [i \in DOMAIN rows |-> rows[i].DRYMATTER <= dry_matter_max])

\* line 38
dry_matter_filter(rows) ==
    select_rows(rows, [i \in DOMAIN rows |-> rows[i].DRYMATTER < dry_matter_max])

clean_jd_yield_dataframe(df_raw) ==
    LET df1 == select_rows(df_raw.rows,
                           [i \in DOMAIN df_raw.rows |-> df_raw.rows[i].yield_bu_ac > 0])
        df2 == select_rows(df1, [i \in DOMAIN df1 |-> df1[i].yield_bu_ac >= yield_min])
        df3 == select_rows(df2, [i \in DOMAIN df2 |-> df2[i].yield_bu_ac <= yield_max])
        df4 == IF "VEHICLSPEED" \in df_raw.columns
               THEN select_rows(df3, [i \in DOMAIN df3 |-> df3[i].VEHICLSPEED > speed_threshold])
               ELSE df3
        df5 == IF "DRYMATTER" \in df_raw.columns THEN dry_matter_filter(df4) ELSE df4
        df6 == IF "Moisture" \in df_raw.columns
               THEN select_rows(df5, [i \in DOMAIN df5 |-> df5[i].Moisture <= moisture_max])
               ELSE df5
    IN  [columns |-> df_raw.columns, rows |-> df6]

InitClean ==
    /\ pc = "clean_ready"
    /\ \E columns \in SUBSET OptionalColumns :
           \E rows \in SeqsUpTo(RawRows(columns), MaxRawRows) :
               arg = [columns |-> columns, rows |-> rows]
    /\ ret = <<>>
    /\ merge_arg = <<>>
    /\ soil = <<>>
    /\ yield_df = <<>>
    /\ cell_size = 2
    /\ grid = <<>>
    /\ grid_in = <<>>
    /\ nitrogen_df = <<>>
    /\ min_density_percent = phantom_density
    /\ log = <<>>
    /\ retry = <<>>

CleanJdYieldDataframe ==
    /\ pc = "clean_ready"
    /\ pc' = "cleaned"
    /\ ret' = clean_jd_yield_dataframe(arg)
    /\ log' = Append(log, "clean_jd_yield_dataframe")
    /\ UNCHANGED <<merge_arg, soil, yield_df, cell_size, grid, grid_in, nitrogen_df, min_density_percent,
                   retry, arg>>

NextClean == CleanJdYieldDataframe

SpecClean == InitClean /\ [][NextClean]_vars

----------------------------------------------------------------------------
(* build_feature_matrix (features.py 12-60) on its own.  The frame is an   *)
(* acre dataset as pd.read_csv loads it: the row labels are 0, 1, 2, ...;  *)
(* a row holds "absent" in a column the frame does not have.  A frame made *)
(* by the function is its columns in order and its rows, each a label and  *)
(* the cells of the row.                                                   *)

MaxFeatureRows == 2     \* most rows of the acre dataset

DatasetColumns == {"mean_nitrogen_lb_ac", "rainfall_in", "lat", "lon", "soil_musym"}

\* lexicographic order of the soil symbols, "UNK" being the fill value
SoilOrder == <<"Ab", "UNK">>

dummy_name == [Ab |-> "soil_musym_Ab", UNK |-> "soil_musym_UNK"]

\* the cells of one row; rainfall_in is one value for the whole field
FeatureCells(columns, rain) ==
    [mean_yield_bu_ac : {NaN, Rat(1, 1)},
     mean_nitrogen_lb_ac : IF "mean_nitrogen_lb_ac" \in columns THEN {NaN, Rat(1, 1)}
                           ELSE {"absent"},
     mean_irrigation_in : {"absent"},
     rainfall_in : IF "rainfall_in" \in columns THEN {rain} ELSE {"absent"},
     lat : IF "lat" \in columns THEN {NaN, Rat(1, 1)} ELSE {"absent"},
     lon : IF "lon" \in columns THEN {Rat(1, 1)} ELSE {"absent"},
     soil_musym : IF "soil_musym" \in columns THEN {"Ab", "null"} ELSE {"absent"}]

\* the members of a sequence of names that are columns of the frame
RECURSIVE present_columns(_, _)
present_columns(names, columns) ==
    IF names = <<>> THEN <<>>
    ELSE (IF Head(names) \in columns THEN <<Head(names)>> ELSE <<>>)
         \o present_columns(Tail(names), columns)

\* lines 23-31
feature_columns(columns, use_coords) ==
    present_columns(<<"mean_nitrogen_lb_ac", "mean_irrigation_in", "rainfall_in">>, columns)
    \o (IF use_coords THEN present_columns(<<"lat", "lon">>, columns) ELSE <<>>)

\* line 37
fillna_unk(v) == IF v = "null" THEN "UNK" ELSE v

\* the dummy columns of pd.get_dummies(..., drop_first=True): one per soil
\* symbol of the rows, in sorted order, without the first
dummy_columns(rows) ==
    LET cats == present_columns(SoilOrder,
                                {fillna_unk(rows[i].cells.soil_musym) : i \in DOMAIN rows})
    IN  IF cats = <<>> THEN <<>> ELSE Tail(cats)

\* the cell of row r in column c of X: a feature of the row or a soil dummy
feature_cell(r, c) ==
    IF c \in {dummy_name[s] : s \in Range(SoilOrder)}
    THEN (IF dummy_name[fillna_unk(r.cells.soil_musym)] = c THEN Rat(1, 1) ELSE Rat(0, 1))
    ELSE r.cells[c]

\* mutant: no row is dropped for a missing feature
valid_mask_all(X) ==
    [i \in DOMAIN X.rows |-> TRUE]

\* line 51
valid_mask(X) ==
    [i \in DOMAIN X.rows |->
        ~(\E k \in DOMAIN X.columns : IsNull(X.rows[i].cells[X.columns[k]]))]

\* df.loc[labels, column]: for each label in turn, every row carrying it
RECURSIVE df_loc(_, _, _)
df_loc(rows, labels, column) ==
    IF labels = <<>> THEN <<>>
    ELSE LET hit == select_rows(rows, [i \in DOMAIN rows |-> rows[i].label = Head(labels)])
         IN  [i \in DOMAIN hit |-> [label |-> hit[i].label, value |-> hit[i].cells[column]]]
             \o df_loc(rows, Tail(labels), column)

build_feature_matrix(df_in, use_coords) ==
    LET df == select_rows(df_in.rows,
                          [i \in DOMAIN df_in.rows |->
                              ~IsNull(df_in.rows[i].cells.mean_yield_bu_ac)])
        feature_cols == feature_columns(df_in.columns, use_coords)
        columns1 == IF "soil_musym" \in df_in.columns
                    THEN feature_cols \o [k \in DOMAIN dummy_columns(df) |->
                                             dummy_name[dummy_columns(df)[k]]]
                    ELSE feature_cols
        X1 == [columns |-> columns1,
               rows |-> [i \in DOMAIN df |->
                            [label |-> df[i].label,
                             cells |-> [c \in Range(columns1) |-> feature_cell(df[i], c)]]]]
        all_nan_cols == {c \in Range(columns1) :
                            \A i \in DOMAIN X1.rows : IsNull(X1.rows[i].cells[c])}
        columns2 == select_rows(columns1, [k \in DOMAIN columns1 |->
                                              columns1[k] \notin all_nan_cols])
        X2 == [columns |-> columns2,
               rows |-> [i \in DOMAIN X1.rows |->
                            [label |-> X1.rows[i].label,
                             cells |-> [c \in Range(columns2) |-> X1.rows[i].cells[c]]]]]
        X == [columns |-> columns2, rows |-> select_rows(X2.rows, valid_mask(X2))]
        y == df_loc(df, [i \in DOMAIN X.rows |-> X.rows[i].label], "mean_yield_bu_ac")
    IN  [X |-> X, y |-> y]

InitFeatures ==
    /\ pc = "features_ready"
    /\ \E columns \in SUBSET DatasetColumns, rain \in {NaN, Rat(1, 1)}, use_coords \in BOOLEAN :
           \E cells \in SeqsUpTo(FeatureCells(columns, rain), MaxFeatureRows) :
               arg = [df |-> [columns |-> columns \cup {"mean_yield_bu_ac"},
                              rows |-> [i \in DOMAIN cells |->
                                           [label |-> i - 1, cells |-> cells[i]]]],
                      use_coords |-> use_coords]
    /\ ret = <<>>
    /\ merge_arg = <<>>
    /\ soil = <<>>
    /\ yield_df = <<>>
    /\ cell_size = 2
    /\ grid = <<>>
    /\ grid_in = <<>>
    /\ nitrogen_df = <<>>
    /\ min_density_percent = phantom_density
    /\ log = <<>>
    /\ retry = <<>>

BuildFeatureMatrix ==
    /\ pc = "features_ready"
    /\ pc' = "featured"
    /\ ret' = build_feature_matrix(arg.df, arg.use_coords)
    /\ log' = Append(log, "build_feature_matrix")
    /\ UNCHANGED <<merge_arg, soil, yield_df, cell_size, grid, grid_in, nitrogen_df, min_density_percent,
                   retry, arg>>

NextFeatures == BuildFeatureMatrix

SpecFeatures == InitFeatures /\ [][NextFeatures]_vars

----------------------------------------------------------------------------
(* build_field_dataset (pipeline.py 22-78) from the shapefile to the CSV.  *)
(* arg is the harvest shapefile as gpd.read_file and transform_points give *)
(* it, ret the files written.  Coordinates are in hundredths of a metre,   *)
(* as for combine_multiple_n_files; the harvest points and the cell sizes  *)
(* are whole metres, which binary floating point holds exactly, so that    *)
(* the cell a point is binned to is the cell exact arithmetic gives.  What *)
(* the network answers is drawn when the step that asks is taken.          *)

MaxFieldX == 3        \* x coordinates of the shapefile points are 0, 1, .., MaxFieldX metres
MaxFieldPoints == 2   \* most points of the harvest shapefile

FieldYs == {0, 100}
ShapefileYields == {40, 200}
FieldCellSizes == {100, 200}

ShapefileRows ==
    [x : {100 * k : k \in 0..MaxFieldX}, y : FieldYs, yield_bu_ac : ShapefileYields,
     VEHICLSPEED : {"absent"}, DRYMATTER : {"absent"}, Moisture : {"absent"}]

\* config.nitrogen_shapefiles: none, one without a rate column, one pass of
\* one point, two passes that overlap at (0.0, 0.0)
DatasetNitrogenConfigs ==
    {<<>>,
     <<[has_rate |-> FALSE, rows |-> <<>>]>>,
     <<[has_rate |-> TRUE, rows |-> <<[x |-> 0, y |-> 0, nitrogen_lb_ac |-> 7]>>]>>,
     <<[has_rate |-> TRUE, rows |-> <<[x |-> 4, y |-> 5, nitrogen_lb_ac |-> 5],
                                      [x |-> 15, y |-> 6, nitrogen_lb_ac |-> 5]>>],
       [has_rate |-> TRUE, rows |-> <<[x |-> 0, y |-> 0, nitrogen_lb_ac |-> 7]>>]>>}

\* the JSON body of a response of status 200: with or without
\* daily.precipitation_sum, whose entries are tenths of a millimetre or null
RainBodies ==
    {[has_precip |-> FALSE, precipitation_sum |-> <<>>],
     [has_precip |-> TRUE, precipitation_sum |-> <<Rat(254, 10), NaN, Rat(127, 10)>>]}

\* what query_ssurgo returns: (musym, muname) or (None, None)
SoilResults ==
    {[musym |-> "Ab", muname |-> "Alpha silt loam"], [musym |-> "null", muname |-> "null"]}

\* yield_loader.py 75-90: the cleaned points without the helper columns
load_yield_points(shp, farm_name, field_name) ==
    LET df_clean == clean_jd_yield_dataframe(shp).rows
    IN  [i \in DOMAIN df_clean |->
            [x |-> df_clean[i].x, y |-> df_clean[i].y,
             yield_bu_ac |-> df_clean[i].yield_bu_ac,
             farm |-> farm_name, field |-> field_name]]

\* np.nansum of the entries, in tenths of a millimetre
RECURSIVE nansum_tenths(_)
nansum_tenths(s) ==
    IF s = <<>> THEN 0
    ELSE (IF IsNull(Head(s)) THEN 0 ELSE Head(s).num) + nansum_tenths(Tail(s))

\* weather.py 77-94: NaN without a response or without precipitation_sum,
\* else the sum in inches (mm / 25.4)
fetch_rainfall(call, body) ==
    IF call.result = "None" THEN NaN
    ELSE IF ~body.has_precip THEN NaN
    ELSE Rat(nansum_tenths(body.precipitation_sum), 254)

\* weather.py 110-111
add_rainfall_to_grid(grid_df, total_rain_in) ==
    [i \in DOMAIN grid_df |-> grid_df[i] @@ [rainfall_in |-> total_rain_in]]

\* pyproj's transform of a cell centre from target_crs to source_crs
transform_points(cx, cy, axis) == [axis |-> axis, of |-> <<cx, cy>>]

\* transforms.py 70-76
add_latlon_to_grid(grid_df) ==
    [i \in DOMAIN grid_df |->
        LET cx == (grid_df[i].x_min + grid_df[i].x_max) \div 2
            cy == (grid_df[i].y_min + grid_df[i].y_max) \div 2
        IN  grid_df[i] @@ [lat |-> transform_points(cx, cy, "lat"),
                           lon |-> transform_points(cx, cy, "lon")]]

\* soil.py 84-85: df.loc[idx, "lat"] and df.loc[idx, "lon"] raise KeyError when
\* the frame has rows and lacks the lat or the lon column
add_soil_raises(grid_df) ==
    /\ Len(grid_df) > 0
    /\ ("lat" \notin DOMAIN grid_df[1] \/ "lon" \notin DOMAIN grid_df[1])

\* mutant: the cells SSURGO knows nothing about are dropped
add_soil_drop_unknown(grid_df, results) ==
    select_rows([i \in DOMAIN grid_df |->
                    grid_df[i] @@ [soil_musym |-> results[i].musym,
                                   soil_muname |-> results[i].muname]],
                [i \in DOMAIN grid_df |-> results[i].musym # "null"])

\* soil.py 78-93, results[i] being what query_ssurgo returns for row i
add_soil_to_grid(grid_df, results) ==
    [i \in DOMAIN grid_df |->
        grid_df[i] @@ [soil_musym |-> results[i].musym, soil_muname |-> results[i].muname]]

\* mutant: soil is queried before lat/lon is added
dataset_steps_soil_first ==
    <<"build_field_grid", "filter_phantom_acres", "add_rainfall_to_grid",
      "add_soil_to_grid", "add_latlon_to_grid", "merge_nitrogen", "to_csv">>

\* the steps of build_field_dataset in the order of the code
dataset_steps ==
    <<"build_field_grid", "filter_phantom_acres", "add_rainfall_to_grid",
      "add_latlon_to_grid", "add_soil_to_grid", "merge_nitrogen", "to_csv">>

\* the position of the caller when a step has returned
after_step ==
    [build_field_grid |-> "field_grid", filter_phantom_acres |-> "filtered",
     add_rainfall_to_grid |-> "rained", add_latlon_to_grid |-> "located",
     add_soil_to_grid |-> "soiled", merge_nitrogen |-> "nitrogen_done",
     to_csv |-> "done"]

\* the step is the next one to run
step_ready(name) ==
    \E k \in 2..Len(dataset_steps) :
        /\ dataset_steps[k] = name
        /\ pc = after_step[dataset_steps[k - 1]]

InitDataset ==
    /\ pc = "config"
    /\ \E rows \in SeqsUpTo(ShapefileRows, MaxFieldPoints) :
           arg = [columns |-> {}, rows |-> rows]
    /\ ret = <<>>
    /\ merge_arg = <<>>
    /\ soil = <<>>
    /\ yield_df = <<>>
    /\ cell_size \in FieldCellSizes
    /\ grid = <<>>
    /\ grid_in = <<>>
    /\ nitrogen_df = <<>>
    /\ min_density_percent = phantom_density
    /\ log = <<>>
    /\ retry = <<>>

\* build_field_grid line 107
LoadYieldPoints ==
    /\ pc = "config"
    /\ pc' = "start"
    /\ yield_df' = load_yield_points(arg, "farm", "field")
    /\ log' = Append(log, "load_yield_points")
    /\ UNCHANGED <<merge_arg, soil, cell_size, grid, grid_in, nitrogen_df, min_density_percent,
                   retry, arg, ret>>

\* the frame of _request_with_retry when the loop is entered
request_frame(max_retries, backoff) ==
    [max_retries |-> max_retries, backoff |-> backoff, attempt |-> 1,
     requests |-> 0, sleeps |-> <<>>, result |-> "pending"]

\* pipeline.py 48-54, weather.py 105-108 and 47-69: add_rainfall_to_grid reads
\* the centroid and calls fetch_rainfall, which enters _request_with_retry
AddRainfallToGrid ==
    /\ step_ready("add_rainfall_to_grid")
    /\ pc' = "rain_loop"
    /\ retry' = request_frame(open_meteo_max_retries, open_meteo_backoff)
    /\ grid_in' = grid
    /\ log' = log \o <<"add_rainfall_to_grid", "fetch_rainfall">>
    /\ UNCHANGED <<merge_arg, soil, yield_df, cell_size, grid, nitrogen_df,
                   min_density_percent, arg, ret>>

\* weather.py 26-36: one blocking request; what the service answers is drawn
RainfallRequest ==
    /\ pc = "rain_loop"
    /\ retry.attempt <= retry.max_retries
    /\ \E outcome \in AttemptOutcomes :
           IF returns_response(outcome)
           THEN /\ retry' = [retry EXCEPT !.requests = @ + 1, !.result = "response"]
                /\ pc' = "rain_returned"
           ELSE /\ retry' = [retry EXCEPT !.requests = @ + 1]
                /\ pc' = "rain_failed"
    /\ UNCHANGED <<merge_arg, soil, yield_df, cell_size, grid, grid_in, nitrogen_df,
                   min_density_percent, log, arg, ret>>

\* weather.py 38-41: time.sleep(backoff ** attempt) after a failed attempt that
\* is not the last; then the loop variable advances
RainfallBackoff ==
    /\ pc = "rain_failed"
    /\ retry' = [retry EXCEPT
                     !.sleeps = IF retry.attempt < retry.max_retries
                                THEN Append(@, backoff_wait(retry.backoff, retry.attempt))
                                ELSE @,
                     !.attempt = @ + 1]
    /\ pc' = "rain_loop"
    /\ UNCHANGED <<merge_arg, soil, yield_df, cell_size, grid, grid_in, nitrogen_df,
                   min_density_percent, log, arg, ret>>

\* weather.py 43-44: every attempt failed, None is returned
RainfallExhausted ==
    /\ pc = "rain_loop"
    /\ retry.attempt > retry.max_retries
    /\ retry' = [retry EXCEPT !.result = "None"]
    /\ pc' = "rain_returned"
    /\ UNCHANGED <<merge_arg, soil, yield_df, cell_size, grid, grid_in, nitrogen_df,
                   min_density_percent, log, arg, ret>>

\* weather.py 77-94 and 110-114: fetch_rainfall turns the response (or None)
\* into a value and add_rainfall_to_grid writes it on a copy of the grid
RainfallToGrid ==
    /\ pc = "rain_returned"
    /\ pc' = after_step["add_rainfall_to_grid"]
    /\ \E body \in RainBodies :
           grid' = add_rainfall_to_grid(grid, fetch_rainfall(retry, body))
    /\ UNCHANGED <<merge_arg, soil, yield_df, cell_size, grid_in, nitrogen_df,
                   min_density_percent, log, retry, arg, ret>>

\* pipeline.py 57
AddLatlonToGrid ==
    /\ step_ready("add_latlon_to_grid")
    /\ pc' = after_step["add_latlon_to_grid"]
    /\ grid' = add_latlon_to_grid(grid)
    /\ grid_in' = grid
    /\ log' = Append(log, "add_latlon_to_grid")
    /\ UNCHANGED <<merge_arg, soil, yield_df, cell_size, nitrogen_df, min_density_percent, retry, arg, ret>>

\* pipeline.py 60, soil.py 77-81: add_soil_to_grid copies the grid and
\* enters its loop over the rows
AddSoilToGrid ==
    /\ step_ready("add_soil_to_grid")
    /\ pc' = "soil_loop"
    /\ soil' = [idx |-> 1, results |-> <<>>, call |-> <<>>]
    /\ grid_in' = grid
    /\ log' = Append(log, "add_soil_to_grid")
    /\ UNCHANGED <<merge_arg, yield_df, cell_size, grid, nitrogen_df, min_density_percent,
                   retry, arg, ret>>

\* soil.py 83-86 and 17-43: the row's lat and lon are read (KeyError when a
\* column is missing) and query_ssurgo enters _request_with_retry
SoilRow ==
    /\ pc = "soil_loop"
    /\ soil.idx <= Len(grid)
    /\ IF add_soil_raises(grid)
       THEN /\ pc' = "raised"
            /\ UNCHANGED <<soil, log>>
       ELSE /\ pc' = "soil_request"
            /\ soil' = [soil EXCEPT !.call = request_frame(ssurgo_max_retries, ssurgo_backoff)]
            /\ log' = Append(log, "query_ssurgo")
    /\ UNCHANGED <<merge_arg, yield_df, cell_size, grid, grid_in, nitrogen_df,
                   min_density_percent, retry, arg, ret>>

\* weather.py 26-36 for the SSURGO request
SoilRequest ==
    /\ pc = "soil_request"
    /\ soil.call.attempt <= soil.call.max_retries
    /\ \E outcome \in AttemptOutcomes :
           IF returns_response(outcome)
           THEN /\ soil' = [soil EXCEPT !.call.requests = @ + 1, !.call.result = "response"]
                /\ pc' = "soil_answer"
           ELSE /\ soil' = [soil EXCEPT !.call.requests = @ + 1]
                /\ pc' = "soil_failed"
    /\ UNCHANGED <<merge_arg, yield_df, cell_size, grid, grid_in, nitrogen_df,
                   min_density_percent, log, retry, arg, ret>>

\* weather.py 38-41 for the SSURGO request
SoilBackoff ==
    /\ pc = "soil_failed"
    /\ soil' = [soil EXCEPT
                    !.call.sleeps =
                        IF soil.call.attempt < soil.call.max_retries
                        THEN Append(@, backoff_wait(soil.call.backoff, soil.call.attempt))
                        ELSE @,
                    !.call.attempt = @ + 1]
    /\ pc' = "soil_request"
    /\ UNCHANGED <<merge_arg, yield_df, cell_size, grid, grid_in, nitrogen_df,
                   min_density_percent, log, retry, arg, ret>>

\* weather.py 43-44 for the SSURGO request
SoilExhausted ==
    /\ pc = "soil_request"
    /\ soil.call.attempt > soil.call.max_retries
    /\ soil' = [soil EXCEPT !.call.result = "None"]
    /\ pc' = "soil_answer"
    /\ UNCHANGED <<merge_arg, yield_df, cell_size, grid, grid_in, nitrogen_df,
                   min_density_percent, log, retry, arg, ret>>

\* soil.py 45-69 and 86-88: query_ssurgo returns (None, None) without a
\* response, else what it reads in the reply; the pair is appended
SoilAnswer ==
    /\ pc = "soil_answer"
    /\ \E result \in SoilResults :
           /\ soil.call.result = "None" => result.musym = "null"
           /\ soil' = [soil EXCEPT !.results = Append(@, result), !.call = <<>>]
    /\ pc' = "soil_rate_limit"
    /\ UNCHANGED <<merge_arg, yield_df, cell_size, grid, grid_in, nitrogen_df,
                   min_density_percent, log, retry, arg, ret>>

\* soil.py 89: time.sleep(ssurgo_rate_limit), then the next row
SoilRateLimit ==
    /\ pc = "soil_rate_limit"
    /\ soil' = [soil EXCEPT !.idx = @ + 1]
    /\ pc' = "soil_loop"
    /\ UNCHANGED <<merge_arg, yield_df, cell_size, grid, grid_in, nitrogen_df,
                   min_density_percent, log, retry, arg, ret>>

\* soil.py 91-93: after the last row the two columns are written
SoilColumns ==
    /\ pc = "soil_loop"
    /\ soil.idx > Len(grid)
    /\ pc' = after_step["add_soil_to_grid"]
    /\ grid' = add_soil_to_grid(grid, soil.results)
    /\ soil' = <<>>
    /\ UNCHANGED <<merge_arg, yield_df, cell_size, grid_in, nitrogen_df,
                   min_density_percent, log, retry, arg, ret>>

\* pipeline.py 63-69.  On a grid of zero rows merge_nitrogen_into_grid raises
\* IndexError at df["x_max"].iloc[0] (operations.py 41) and nothing is exported.
MergeNitrogen ==
    /\ step_ready("merge_nitrogen")
    /\ \E nitrogen_shapefiles \in DatasetNitrogenConfigs :
           IF nitrogen_shapefiles = <<>>
           THEN /\ pc' = after_step["merge_nitrogen"]
                /\ UNCHANGED <<grid, nitrogen_df, log, merge_arg>>
           ELSE LET combined == combine_multiple_n_files(nitrogen_shapefiles)
                IN  IF combined.is_none
                    THEN /\ pc' = after_step["merge_nitrogen"]
                         /\ log' = Append(log, "combine_multiple_n_files")
                         /\ UNCHANGED <<grid, nitrogen_df, merge_arg>>
                    ELSE /\ log' = log \o <<"combine_multiple_n_files",
                                             "merge_nitrogen_into_grid">>
                         /\ nitrogen_df' = combined.rows
                         /\ merge_arg' = merge_nitrogen_argument(grid, combined.rows)
                         /\ IF grid = <<>>
                            THEN /\ pc' = "raised"
                                 /\ UNCHANGED grid
                            ELSE /\ pc' = after_step["merge_nitrogen"]
                                 /\ grid' = merge_nitrogen_into_grid(grid, combined.rows)
    /\ grid_in' = grid
    /\ UNCHANGED <<soil, yield_df, cell_size, min_density_percent, retry, arg, ret>>

\* pipeline.py 72-75
ToCsv ==
    /\ step_ready("to_csv")
    /\ pc' = after_step["to_csv"]
    /\ ret' = Append(ret, grid)
    /\ log' = Append(log, "to_csv")
    /\ UNCHANGED <<merge_arg, soil, yield_df, cell_size, grid, grid_in, nitrogen_df, min_density_percent,
                   retry, arg>>

NextDataset ==
    \/ LoadYieldPoints
    \/ BuildAcreGrid
    \/ AssignPointsToGrid
    \/ KeepPopulated
    \/ FilterPhantomAcres
    \/ AddRainfallToGrid
    \/ RainfallRequest
    \/ RainfallBackoff
    \/ RainfallExhausted
    \/ RainfallToGrid
    \/ AddLatlonToGrid
    \/ AddSoilToGrid
    \/ SoilRow
    \/ SoilRequest
    \/ SoilBackoff
    \/ SoilExhausted
    \/ SoilAnswer
    \/ SoilRateLimit
    \/ SoilColumns
    \/ MergeNitrogen
    \/ ToCsv

SpecDataset == InitDataset /\ [][NextDataset]_vars

----------------------------------------------------------------------------
(* Grid building and point assignment over fields of several columns and   *)
(* rows: three yield points, so that a point can lie strictly inside the   *)
(* extent the other points span.                                           *)

MaxAssignX == 3        \* largest x of a yield point
MaxAssignY == 3        \* largest y of a yield point
MaxAssignPoints == 3   \* points of the yield frame

AssignSizes == {2}

AssignPointRows ==
    [x : 0..MaxAssignX, y : 0..MaxAssignY, yield_bu_ac : {1}, farm : {"farm"}, field : {"field"}]

\* one row order per multiset of points: the assigner groups the points by
\* key and takes a count and a mean, neither of which reads the row order
AssignFrames ==
    {df \in [1..MaxAssignPoints -> AssignPointRows] :
        \A p \in 1..(MaxAssignPoints - 1) :
            \/ df[p].x < df[p + 1].x
            \/ df[p].x = df[p + 1].x /\ df[p].y <= df[p + 1].y}

InitAssign ==
    /\ pc = "start"
    /\ yield_df \in AssignFrames
    /\ cell_size \in AssignSizes
    /\ grid = <<>>
    /\ grid_in = <<>>
    /\ nitrogen_df = <<>>
    /\ min_density_percent = phantom_density
    /\ log = <<>>
    /\ retry = <<>>
    /\ arg = <<>>
    /\ ret = <<>>
    /\ merge_arg = <<>>
    /\ soil = <<>>

NextAssign == BuildAcreGrid \/ AssignPointsToGrid

SpecAssign == InitAssign /\ [][NextAssign]_vars

----------------------------------------------------------------------------
(* Quantities the properties are stated in.                                *)

\* extent of the yield points
ExtentW == SetMax(Range(Column(yield_df, "x"))) - SetMin(Range(Column(yield_df, "x")))

ExtentH == SetMax(Range(Column(yield_df, "y"))) - SetMin(Range(Column(yield_df, "y")))

CeilDiv(n, d) == (n + d - 1) \div d

RECURSIVE SumOver(_, _)
SumOver(S, f) ==
    IF S = {} THEN 0 ELSE LET e == CHOOSE e \in S : TRUE IN f[e] + SumOver(S \ {e}, f)

TotalPoints(g) == SumOver(DOMAIN g, [i \in DOMAIN g |-> g[i].n_points])

\* column and row index of yield point p against the grid g
PointCol(p, g) == FloorDiv(yield_df[p].x - grid_x_origin(g), grid_cell_size(g))

PointRow(p, g) == FloorDiv(yield_df[p].y - grid_y_origin(g), grid_cell_size(g))

NumColumns(g) == Cardinality({g[i].x_min : i \in DOMAIN g})

NumRows(g) == Cardinality({g[i].y_min : i \in DOMAIN g})

InIndexRange(p, g) ==
    /\ 0 <= PointCol(p, g) /\ PointCol(p, g) < NumColumns(g)
    /\ 0 <= PointRow(p, g) /\ PointRow(p, g) < NumRows(g)

\* the point lies in the half-open extent covered by the grid's cells
InGridExtent(p, g) ==
    /\ grid_x_origin(g) <= yield_df[p].x
    /\ yield_df[p].x < SetMax(Range(Column(g, "x_max")))
    /\ grid_y_origin(g) <= yield_df[p].y
    /\ yield_df[p].y < SetMax(Range(Column(g, "y_max")))

SameBox(a, b) ==
    /\ a.acre_id = b.acre_id
    /\ a.x_min = b.x_min /\ a.x_max = b.x_max
    /\ a.y_min = b.y_min /\ a.y_max = b.y_max

----------------------------------------------------------------------------
(* Properties of build_acre_grid and assign_points_to_grid.                *)

\* C1 (as claimed): in the four-corner scenario the builder yields the single
\* cell [0,10]x[0,10] and the assigner puts all 4 points into it: n_points = 4
\* and mean_yield_bu_ac is the mean of the 4 measurements.
C1_ScenarioAllFour ==
    pc = "assigned" =>
        /\ Len(grid) = 1
        /\ grid[1].x_min = 0 /\ grid[1].x_max = 10
        /\ grid[1].y_min = 0 /\ grid[1].y_max = 10
        /\ grid[1].n_points = 4
        /\ RatEq(grid[1].mean_yield_bu_ac, Mean(Column(yield_df, "yield_bu_ac")))

\* C2: conservation.  When every yield point lies in the half-open extent
\* [min x_min, max x_max) x [min y_min, max y_max) covered by the grid built
\* from those points, the n_points of all cells sum to the number of points.
C2_Conservation ==
    (pc = "assigned" /\ \A p \in DOMAIN yield_df : InGridExtent(p, grid_in))
        => TotalPoints(grid) = Len(yield_df)

C2_Witness ==
    /\ pc = "assigned"
    /\ Len(yield_df) = 2
    /\ \A p \in DOMAIN yield_df : InGridExtent(p, grid_in)
    /\ Len(grid) = 2
    /\ \A i \in DOMAIN grid : grid[i].n_points = 1

\* C3 (as claimed): a point whose (col, row) is outside the grid's index range
\* is counted in no cell, so the n_points of all cells sum to the number of
\* points whose (col, row) is in range.
C3_OutOfRangeUnassigned ==
    pc = "assigned" =>
        TotalPoints(grid) = Cardinality({p \in DOMAIN yield_df : InIndexRange(p, grid_in)})

\* C4 (as claimed): the builder produces exactly floor(W/s) * floor(H/s) cells.
C4_FloorCells ==
    pc = "built" => Len(grid) = (ExtentW \div cell_size) * (ExtentH \div cell_size)

\* C4 (amended): the builder produces floor(W/s) * floor(H/s) cells when s
\* divides both W and H, and strictly more than that whenever the grid is not
\* empty and s does not divide W or does not divide H.
C4_FloorOnlyWhenDivisible ==
    pc = "built" =>
        LET floors == (ExtentW \div cell_size) * (ExtentH \div cell_size)
        IN  /\ (ExtentW % cell_size = 0 /\ ExtentH % cell_size = 0) => Len(grid) = floors
            /\ (Len(grid) > 0 /\ (ExtentW % cell_size # 0 \/ ExtentH % cell_size # 0))
                   => Len(grid) > floors

C4_Witness ==
    /\ pc = "built"
    /\ ExtentW % cell_size # 0
    /\ ExtentH \div cell_size = 1
    /\ Len(grid) = 2

\* C5: the number of cells built is ceil(W/s) * ceil(H/s).
C5_CeilCells ==
    pc = "built" => Len(grid) = CeilDiv(ExtentW, cell_size) * CeilDiv(ExtentH, cell_size)

C5_Witness ==
    /\ pc = "built"
    /\ ExtentW = cell_size
    /\ ExtentH = cell_size + 1
    /\ Len(grid) = 2

\* C6 (as claimed): a point and a cell get the same key exactly when the
\* point's floored (col, row) equals the cell's rounded (col, row), for every
\* point, also one whose col or row is outside the grid's index range.
C6_KeyIffIndex ==
    pc = "assigned" =>
        LET num_cols == assign_num_cols(grid_in)
            gk == grid_key(grid_in, num_cols)
            pk == point_key(yield_df, grid_in, num_cols)
        IN  \A p \in DOMAIN yield_df : \A i \in DOMAIN grid_in :
                (pk[p] = gk[i]) <=>
                    /\ PointCol(p, grid_in) = grid_col(grid_in)[i]
                    /\ PointRow(p, grid_in) = grid_row(grid_in)[i]

\* C10: the assigner is a left join.  Every input cell comes back once, in
\* input order, acre_id and bounding box unchanged; a cell whose key matches
\* no point has n_points = 0 and a null mean; a cell whose key matches k >= 1
\* points has n_points = k and the mean of those k measurements.
C10_LeftJoin ==
    pc = "assigned" =>
        LET num_cols == assign_num_cols(grid_in)
            gk == grid_key(grid_in, num_cols)
            pk == point_key(yield_df, grid_in, num_cols)
            ys == Column(yield_df, "yield_bu_ac")
        IN  /\ Len(grid) = Len(grid_in)
            /\ \A i \in DOMAIN grid_in :
                   LET K == {p \in DOMAIN yield_df : pk[p] = gk[i]}
                   IN  /\ SameBox(grid[i], grid_in[i])
                       /\ grid[i].n_points = Cardinality(K)
                       /\ K = {} => IsNull(grid[i].mean_yield_bu_ac)
                       /\ K # {} => RatEq(grid[i].mean_yield_bu_ac,
                                          Rat(SumOver(K, ys), Cardinality(K)))

C10_Witness ==
    /\ pc = "assigned"
    /\ \E i, j \in DOMAIN grid :
           /\ grid[i].n_points = 0 /\ IsNull(grid[i].mean_yield_bu_ac)
           /\ grid[j].n_points = 2 /\ RatEq(grid[j].mean_yield_bu_ac, Rat(3, 2))

----------------------------------------------------------------------------
(* Properties of filter_phantom_acres and merge_nitrogen_into_grid.        *)

\* the k-th smallest value of a sequence of integers, by counting
KthSmallest(s, k) ==
    CHOOSE v \in Range(s) :
        /\ Cardinality({i \in DOMAIN s : s[i] < v}) < k
        /\ k <= Cardinality({i \in DOMAIN s : s[i] <= v})

\* twice the median of a non-empty sequence of integers
TwiceMedian(s) ==
    IF Len(s) % 2 = 1 THEN 2 * KthSmallest(s, (Len(s) + 1) \div 2)
    ELSE KthSmallest(s, Len(s) \div 2) + KthSmallest(s, Len(s) \div 2 + 1)

\* n_points of row i of g is at least median(n_points over g) * fraction
MeetsCutoff(g, i, fraction) ==
    g[i].n_points * 2 * fraction.den >= TwiceMedian(Column(g, "n_points")) * fraction.num

\* the j-th smallest member of a set of row numbers
NthOf(S, j) == CHOOSE i \in S : Cardinality({k \in S : k < i}) = j - 1

\* out holds exactly the rows of g numbered in S, in their order in g
IsSelection(out, g, S) ==
    /\ Len(out) = Cardinality(S)
    /\ \A j \in DOMAIN out : out[j] = g[NthOf(S, j)]

\* C7 (as claimed): a second pass of the phantom filter returns the cells of
\* the first pass; it drops nothing.
C7_Idempotent ==
    pc = "filtered_twice" => grid = grid_in

\* C7 (amended): the second pass recomputes the median over the cells that
\* survived the first.  It never adds or reorders cells, and it drops nothing
\* exactly when every survivor has n_points >= median(survivors) * fraction.
C7_SecondPass ==
    pc = "filtered_twice" =>
        /\ \E S \in SUBSET DOMAIN grid_in : IsSelection(grid, grid_in, S)
        /\ (grid = grid_in) <=>
               \A i \in DOMAIN grid_in : MeetsCutoff(grid_in, i, min_density_percent)

C7_Witness ==
    /\ pc = "filtered_twice"
    /\ min_density_percent = phantom_density
    /\ Len(grid_in) = 3
    /\ Len(grid) = 2
    /\ grid = <<grid_in[2], grid_in[3]>>

\* C8: with a single nitrogen point exactly at the centre of one cell of the
\* grid, the merge sets mean_nitrogen_lb_ac of that cell to the point's value
\* and leaves it null in every other cell, also when cells of the built grid
\* are missing from the grid.
C8_MergeAtCentre ==
    (pc = "merged" /\ Len(nitrogen_df) = 1) =>
        \A c \in DOMAIN grid_in :
            (nitrogen_df[1].x = grid_in[c].x_center /\ nitrogen_df[1].y = grid_in[c].y_center)
                => /\ Len(grid) = Len(grid_in)
                   /\ RatEq(grid[c].mean_nitrogen_lb_ac, Rat(nitrogen_df[1].nitrogen_lb_ac, 1))
                   /\ \A i \in DOMAIN grid : i # c => IsNull(grid[i].mean_nitrogen_lb_ac)

C8_Witness ==
    /\ pc = "merged"
    /\ Len(grid) = 2
    /\ grid[1].acre_id = Format05d(1)
    /\ grid[2].acre_id = Format05d(2)
    /\ nitrogen_df[1].x = grid_in[2].x_center /\ nitrogen_df[1].y = grid_in[2].y_center
    /\ RatEq(grid[2].mean_nitrogen_lb_ac, Rat(7, 1))
    /\ IsNull(grid[1].mean_nitrogen_lb_ac)

\* C9: on a non-empty grid the phantom filter returns exactly the cells with
\* n_points >= median(n_points) * fraction, in their original order and with
\* their attributes unchanged.
C9_FilterRule ==
    (pc = "filtered" /\ grid_in # <<>>) =>
        IsSelection(grid, grid_in,
                    {i \in DOMAIN grid_in : MeetsCutoff(grid_in, i, min_density_percent)})

C9_Witness ==
    /\ pc = "filtered"
    /\ min_density_percent = phantom_density
    /\ Len(grid_in) = 4
    /\ Len(grid) = 2
    /\ grid[1] = grid_in[2]
    /\ grid[2] = grid_in[4]

----------------------------------------------------------------------------
\* C11: filter_phantom_acres on a grid of zero rows returns a grid of zero
\* rows, does not raise, and computes no median.
C11_EmptyGridSafe ==
    (pc \in {"filtered", "filtered_twice"} /\ grid_in = <<>>) =>
        /\ grid = <<>>
        /\ log[Len(log)] = "filter_phantom_acres"

C11_Witness ==
    /\ pc = "filtered"
    /\ grid_in = <<>>
    /\ grid = <<>>
    /\ log = <<"filter_phantom_acres">>

----------------------------------------------------------------------------
\* C12: the grid builder on an empty point set raises an error; it never
\* returns a grid, so no later step of build_field_grid runs.
C12_EmptyInputRaises ==
    (yield_df = <<>> /\ pc # "start") =>
        /\ pc = "raised"
        /\ grid = <<>>
        /\ log = <<"build_acre_grid">>

C12_Witness ==
    /\ pc = "raised"
    /\ yield_df = <<>>
    /\ log = <<"build_acre_grid">>

----------------------------------------------------------------------------
\* the number an acre_id of five digits reads as
AcreIdValue(id) == id[1] * 10000 + id[2] * 1000 + id[3] * 100 + id[4] * 10 + id[5]

\* C13: the cells of a built grid are in raster order.  The cell generated
\* i-th (from 0) has col = i mod num_cols and row = i div num_cols, its
\* origin is (min_x + col*cell_size, min_y + row*cell_size), its far edges
\* are one cell_size further, its centre is the midpoint, and its acre_id is
\* i written with five digits; the acre_ids are pairwise distinct.
C13_RasterScan ==
    pc = "built" =>
        LET min_x == SetMin(Range(Column(yield_df, "x")))
            min_y == SetMin(Range(Column(yield_df, "y")))
            num_cols == CeilDiv(ExtentW, cell_size)
        IN  /\ \A i \in 0..(Len(grid) - 1) :
                   LET c == grid[i + 1]
                       col == i % num_cols
                       row == i \div num_cols
                   IN  /\ c.x_min = min_x + col * cell_size
                       /\ c.y_min = min_y + row * cell_size
                       /\ c.x_max = c.x_min + cell_size
                       /\ c.y_max = c.y_min + cell_size
                       /\ 2 * c.x_center = c.x_min + c.x_max
                       /\ 2 * c.y_center = c.y_min + c.y_max
                       /\ Len(c.acre_id) = 5
                       /\ AcreIdValue(c.acre_id) = i
            /\ \A i, j \in DOMAIN grid : i # j => grid[i].acre_id # grid[j].acre_id

\* a grid of three columns and two rows: the fourth cell starts the second row
C13_Witness ==
    /\ pc = "built"
    /\ Len(grid) = 6
    /\ NumColumns(grid) = 3
    /\ grid[4].x_min = grid[1].x_min
    /\ grid[4].y_min = grid[1].y_min + cell_size
    /\ grid[4].acre_id = <<0, 0, 0, 0, 3>>

----------------------------------------------------------------------------
\* the attempts that fail if made
FailedAttempts == {k \in DOMAIN retry.outcomes : retry.outcomes[k] # "ok"}

C15_RetryBounds ==
    /\ retry.requests <= retry.max_retries
    /\ pc = "retry_returned" =>
           /\ retry.result \in {"response", "None"}
           /\ retry.result = "response" =>
                  /\ retry.outcomes[retry.requests] = "ok"
                  /\ \A k \in 1..(retry.requests - 1) : k \in FailedAttempts
                  /\ Len(log) = retry.requests + Len(retry.sleeps)
           /\ retry.result = "None" <=>
                  (1..retry.max_retries) \subseteq FailedAttempts
           /\ retry.result = "None" => retry.requests = retry.max_retries

\* C15: _request_with_retry makes at most max_retries requests, returns the
\* first response of status 200 without making a further request, returns
\* None exactly when all max_retries attempts failed, and always returns.
C15_BoundedRetry == [](C15_RetryBounds) /\ <>(pc = "retry_returned")

\* the third of three attempts succeeds
C15_Witness ==
    /\ pc = "retry_returned"
    /\ retry.max_retries = 3
    /\ retry.requests = 3
    /\ retry.result = "response"
    /\ retry.outcomes = <<"http_error", "request_exception", "ok">>

----------------------------------------------------------------------------
\* the rates of the points of one pass at a rounded location
RatesAt(pass, loc) ==
    {pass.rows[i].nitrogen_lb_ac :
        i \in {j \in DOMAIN pass.rows :
                  <<round_1(pass.rows[j].x), round_1(pass.rows[j].y)>> = loc}}

\* the sums that take one point from each of the first k passes that has a
\* point at the location
RECURSIVE OnePointPerPassSums(_, _, _)
OnePointPerPassSums(passes, k, loc) ==
    IF k = 0 THEN {0}
    ELSE LET before == OnePointPerPassSums(passes, k - 1, loc)
             here == IF passes[k].has_rate THEN RatesAt(passes[k], loc) ELSE {}
         IN  IF here = {} THEN before ELSE {a + b : a \in before, b \in here}

RoundedLocations ==
    UNION {{<<round_1(arg[p].rows[i].x), round_1(arg[p].rows[i].y)>> :
               i \in DOMAIN arg[p].rows} : p \in {q \in DOMAIN arg : arg[q].has_rate}}

\* C16: in the result of combine_multiple_n_files every distinct rounded
\* location appears exactly once, and its rate is the sum over the passes of
\* the pass's rate there, each pass contributing one point per location.
C16_SumOfPasses ==
    (pc = "combined" /\ ~ret.is_none) =>
        /\ {<<ret.rows[k].x, ret.rows[k].y>> : k \in DOMAIN ret.rows} = RoundedLocations
        /\ Len(ret.rows) = Cardinality(RoundedLocations)
        /\ \A k \in DOMAIN ret.rows :
               ret.rows[k].nitrogen_lb_ac \in
                   OnePointPerPassSums(arg, Len(arg), <<ret.rows[k].x, ret.rows[k].y>>)

----------------------------------------------------------------------------
\* a raw row passes every cleaning rule of the columns the frame has
PassesCleaning(df_raw, i) ==
    LET r == df_raw.rows[i]
    IN  /\ r.yield_bu_ac > 0
        /\ yield_min <= r.yield_bu_ac
        /\ r.yield_bu_ac <= yield_max
        /\ "VEHICLSPEED" \in df_raw.columns => r.VEHICLSPEED > speed_threshold
        /\ "DRYMATTER" \in df_raw.columns => r.DRYMATTER < dry_matter_max
        /\ "Moisture" \in df_raw.columns => r.Moisture <= moisture_max

\* C17: clean_jd_yield_dataframe returns exactly the input rows, in input
\* order, with yield > 0, yield_min <= yield <= yield_max and, for each
\* optional column the frame has, VEHICLSPEED > speed_threshold,
\* DRYMATTER < dry_matter_max, Moisture <= moisture_max.
C17_CleanRule ==
    pc = "cleaned" =>
        IsSelection(ret.rows, arg.rows,
                    {i \in DOMAIN arg.rows : PassesCleaning(arg, i)})

\* of two rows at the thresholds, the one at dry_matter_max is dropped and the
\* one at yield_max, just above speed_threshold and at moisture_max is kept
C17_Witness ==
    /\ pc = "cleaned"
    /\ arg.columns = OptionalColumns
    /\ Len(arg.rows) = 2
    /\ arg.rows[1].DRYMATTER = dry_matter_max
    /\ arg.rows[1].yield_bu_ac = yield_min
    /\ arg.rows[2] = [yield_bu_ac |-> yield_max, VEHICLSPEED |-> 2236,
                      DRYMATTER |-> 99, Moisture |-> moisture_max]
    /\ ret.rows = <<arg.rows[2]>>

----------------------------------------------------------------------------
\* the labels of the rows of the dataset with a yield and with a value in
\* every column of X that is a column of the dataset
CompleteLabels(df_in, X) ==
    {df_in.rows[i].label :
        i \in {j \in DOMAIN df_in.rows :
                  /\ ~IsNull(df_in.rows[j].cells.mean_yield_bu_ac)
                  /\ \A c \in Range(X.columns) \cap df_in.columns :
                         ~IsNull(df_in.rows[j].cells[c])}}

\* C19: build_feature_matrix returns X and y with the same number of rows
\* and the same row labels; a row of the dataset is present exactly when it
\* has a yield and a value in every retained feature column, so X has no
\* missing value; with use_coords = FALSE neither lat nor lon is a column.
C19_FeatureAlignment ==
    pc = "featured" =>
        /\ Len(ret.X.rows) = Len(ret.y)
        /\ \A i \in DOMAIN ret.X.rows : ret.X.rows[i].label = ret.y[i].label
        /\ \A i \in DOMAIN ret.y :
               ret.y[i].value = arg.df.rows[ret.y[i].label + 1].cells.mean_yield_bu_ac
        /\ {ret.X.rows[i].label : i \in DOMAIN ret.X.rows} = CompleteLabels(arg.df, ret.X)
        /\ \A i, j \in DOMAIN ret.X.rows : i < j => ret.X.rows[i].label < ret.X.rows[j].label
        /\ \A i \in DOMAIN ret.X.rows : \A c \in Range(ret.X.columns) :
               ~IsNull(ret.X.rows[i].cells[c])
        /\ ~arg.use_coords => Range(ret.X.columns) \cap {"lat", "lon"} = {}

\* of two rows the first has no nitrogen; the second is kept although the rainfall is missing for the whole field and its lat is
\* missing, use_coords being FALSE
C19_Witness ==
    /\ pc = "featured"
    /\ ~arg.use_coords
    /\ arg.df.columns = DatasetColumns \cup {"mean_yield_bu_ac"}
    /\ Len(arg.df.rows) = 2
    /\ IsNull(arg.df.rows[1].cells.mean_nitrogen_lb_ac)
    /\ IsNull(arg.df.rows[2].cells.rainfall_in)
    /\ IsNull(arg.df.rows[2].cells.lat)
    /\ arg.df.rows[2].cells.soil_musym = "null"
    /\ Len(ret.X.rows) = 1
    /\ ret.X.rows[1].label = 1
    /\ ret.X.columns = <<"mean_nitrogen_lb_ac", "soil_musym_UNK">>

----------------------------------------------------------------------------
\* the cells of the field grid that survive the phantom filter, computed from
\* the cleaned yield points
SurvivingCells ==
    filter_phantom_acres(
        keep_populated(assign_points_to_grid(yield_df,
                                             build_acre_grid(yield_df, cell_size, "meters"))),
        min_density_percent)

\* the frame has the rows of the other, in order, with the cell of each intact
SameCells(df, other) ==
    /\ Len(df) = Len(other)
    /\ \A i \in DOMAIN df :
           /\ df[i].acre_id = other[i].acre_id
           /\ SameBox(df[i], other[i])
           /\ df[i].n_points = other[i].n_points

\* C14: the rainfall, lat/lon, soil and nitrogen-merge steps neither add, drop
\* nor duplicate rows, and the dataset exported by build_field_dataset has
\* exactly one row for each cell that survived the phantom filter, with a
\* unique acre_id.
C14_OneRowPerCell ==
    /\ pc \in {"rain_loop", "rain_failed", "rain_returned", "rained", "located",
               "soil_loop", "soil_request", "soil_failed", "soil_answer",
               "soil_rate_limit", "soiled", "nitrogen_done"} => SameCells(grid, grid_in)
    /\ pc = "done" =>
           /\ Len(ret) = 1
           /\ SameCells(ret[1], SurvivingCells)
           /\ \A i, j \in DOMAIN ret[1] : i # j => ret[1][i].acre_id # ret[1][j].acre_id

\* a dataset of two cells: no rainfall, no soil for the first cell, both
\* nitrogen locations in the first cell and none in the second
C14_Witness ==
    /\ pc = "done"
    /\ Len(ret[1]) = 2
    /\ IsNull(ret[1][1].rainfall_in)
    /\ ret[1][1].soil_musym = "null"
    /\ ret[1][2].soil_musym = "Ab"
    /\ "mean_nitrogen_lb_ac" \in DOMAIN ret[1][1]
    /\ RatEq(ret[1][1].mean_nitrogen_lb_ac, Rat(17, 2))
    /\ IsNull(ret[1][2].mean_nitrogen_lb_ac)

----------------------------------------------------------------------------
\* the steps every run of build_field_dataset takes, in order
MandatorySteps ==
    <<"load_yield_points", "build_acre_grid", "assign_points_to_grid", "keep_populated",
      "filter_phantom_acres", "add_rainfall_to_grid", "add_latlon_to_grid",
      "add_soil_to_grid", "to_csv">>

\* some call of the name is logged before position i
LoggedBefore(name, i) == \E j \in 1..(i - 1) : log[j] = name

\* C20: build_field_dataset takes its steps in the order load, build, assign,
\* drop empty cells, phantom filter, rainfall, lat/lon, soil, nitrogen merge,
\* CSV export: a step runs once and only after all the steps before it, the
\* external services are asked only after the phantom filter, SSURGO only
\* after lat/lon was added, nitrogen is combined and merged between soil and
\* the export, and the CSV is written once, as the last thing.
C20_Sequencing ==
    /\ \A i \in DOMAIN log : \A k \in DOMAIN MandatorySteps :
           log[i] = MandatorySteps[k] =>
               /\ \A j \in 1..(k - 1) : LoggedBefore(MandatorySteps[j], i)
               /\ ~LoggedBefore(log[i], i)
    /\ \A i \in DOMAIN log :
           /\ log[i] \in {"fetch_rainfall", "query_ssurgo"} =>
                  LoggedBefore("filter_phantom_acres", i)
           /\ log[i] = "query_ssurgo" => LoggedBefore("add_latlon_to_grid", i)
           /\ log[i] \in {"combine_multiple_n_files", "merge_nitrogen_into_grid"} =>
                  LoggedBefore("add_soil_to_grid", i)
           /\ log[i] = "merge_nitrogen_into_grid" => log[i - 1] = "combine_multiple_n_files"
           /\ log[i] = "to_csv" => i = Len(log)
    /\ Len(ret) = (IF pc = "done" THEN 1 ELSE 0)
    /\ pc = "done" => log[Len(log)] = "to_csv"

\* a whole run over a field of two cells with two nitrogen passes
C20_Witness ==
    /\ pc = "done"
    /\ log = <<"load_yield_points", "build_acre_grid", "assign_points_to_grid",
               "keep_populated", "filter_phantom_acres", "median",
               "add_rainfall_to_grid", "fetch_rainfall", "add_latlon_to_grid",
               "add_soil_to_grid", "query_ssurgo", "query_ssurgo",
               "combine_multiple_n_files", "merge_nitrogen_into_grid", "to_csv">>

----------------------------------------------------------------------------
\* the waits so far are backoff, backoff^2, backoff^3, ... in this order
ExponentialSleeps ==
    \A k \in DOMAIN retry.sleeps :
        retry.sleeps[k] = (IF k = 1 THEN retry.backoff ELSE retry.sleeps[k - 1] * retry.backoff)

\* C21 as stated: when _request_with_retry has returned, the k-th sleep was
\* backoff^k and the number of sleeps is the number of requests made minus
\* one.
C21_SleepsOneLess ==
    pc = "retry_returned" =>
        /\ ExponentialSleeps
        /\ Len(retry.sleeps) = retry.requests - 1

\* C21 amended: the k-th sleep is backoff^k; attempt k+1 is made only after
\* k sleeps; when the call has returned there is one sleep less than
\* requests if a request was made, and no sleep if none was made
\* (max_retries = 0).
C21_BackoffSchedule ==
    /\ ExponentialSleeps
    /\ (pc = "retry_loop" /\ retry.attempt <= retry.max_retries) =>
           /\ Len(retry.sleeps) = retry.attempt - 1
           /\ retry.requests = retry.attempt - 1
    /\ pc = "retry_failed" => Len(retry.sleeps) = retry.requests - 1
    /\ pc = "retry_returned" =>
           /\ retry.requests >= 1 => Len(retry.sleeps) = retry.requests - 1
           /\ retry.requests = 0 => (retry.sleeps = <<>> /\ retry.max_retries = 0)

\* three attempts fail: two sleeps, of 2 and 4 seconds, none after the last
C21_Witness ==
    /\ pc = "retry_returned"
    /\ retry.result = "None"
    /\ retry.backoff = 2
    /\ retry.requests = 3
    /\ retry.sleeps = <<2, 4>>

----------------------------------------------------------------------------
\* the join key of cell i of the grid g and of a nitrogen point, from the
\* grid's own geometry
MergeNumCols(g) ==
    (SetMax(Range(Column(g, "x_min"))) - grid_x_origin(g)) \div grid_cell_size(g) + 1

MergeCellKey(g, i) ==
    ((g[i].y_min - grid_y_origin(g)) \div grid_cell_size(g)) * MergeNumCols(g)
        + (g[i].x_min - grid_x_origin(g)) \div grid_cell_size(g)

MergePointKey(g, pt) ==
    FloorDiv(pt.y - grid_y_origin(g), grid_cell_size(g)) * MergeNumCols(g)
        + FloorDiv(pt.x - grid_x_origin(g), grid_cell_size(g))

\* C22: merge_nitrogen_into_grid returns the cells it was given, in the same
\* order, with every attribute they had unchanged (acre_id, bounding box,
\* mean_yield_bu_ac, n_points, rainfall, lat/lon, soil); the one column it
\* adds is mean_nitrogen_lb_ac, null in a cell whose key no nitrogen point
\* has; the frame it was handed is after the call what it was before.
C22_MergeFrame ==
    (pc = "nitrogen_done" /\ log[Len(log)] = "merge_nitrogen_into_grid") =>
        /\ merge_arg = grid_in
        /\ Len(grid) = Len(grid_in)
        /\ \A i \in DOMAIN grid_in :
               /\ "mean_nitrogen_lb_ac" \notin DOMAIN grid_in[i]
               /\ DOMAIN grid[i] = DOMAIN grid_in[i] \cup {"mean_nitrogen_lb_ac"}
               /\ \A f \in DOMAIN grid_in[i] : grid[i][f] = grid_in[i][f]
               /\ (\A p \in DOMAIN nitrogen_df :
                       MergePointKey(grid_in, nitrogen_df[p]) # MergeCellKey(grid_in, i))
                      => IsNull(grid[i].mean_nitrogen_lb_ac)

\* a field grid of two enriched cells, the first with nitrogen, the second
\* matching no nitrogen point
C22_Witness ==
    /\ pc = "nitrogen_done"
    /\ log[Len(log)] = "merge_nitrogen_into_grid"
    /\ Len(grid) = 2
    /\ grid_in[1].soil_musym = "Ab"
    /\ "lat" \in DOMAIN grid_in[2]
    /\ ~IsNull(grid_in[1].rainfall_in)
    /\ RatEq(grid[1].mean_nitrogen_lb_ac, Rat(7, 1))
    /\ IsNull(grid[2].mean_nitrogen_lb_ac)
    /\ Len(merge_arg) = 2
    /\ DOMAIN merge_arg[1] = DOMAIN grid[1] \ {"mean_nitrogen_lb_ac"}

----------------------------------------------------------------------------
\* C23: assign_points_to_grid never drops a cell (same cells, same acre_ids,
\* same order); build_field_grid returns exactly the assigned cells with
\* n_points > 0, in their order and with their acre_ids, so every cell the
\* phantom filter receives has n_points >= 1.
C23_PrunedByCaller ==
    /\ pc = "assigned" =>
           /\ Len(grid) = Len(grid_in)
           /\ \A i \in DOMAIN grid_in : grid[i].acre_id = grid_in[i].acre_id
    /\ pc = "field_grid" =>
           /\ IsSelection(grid, grid_in, {i \in DOMAIN grid_in : grid_in[i].n_points > 0})
           /\ \A j \in DOMAIN grid : grid[j].n_points >= 1
    /\ pc = "filtered" =>
           \A i \in DOMAIN grid_in : grid_in[i].n_points >= 1

\* a grid of two assigned cells of which the caller keeps the second
C23_Witness ==
    /\ pc = "field_grid"
    /\ Len(grid_in) = 2
    /\ Len(grid) = 1
    /\ grid_in[1].n_points = 0
    /\ grid[1] = grid_in[2]
    /\ grid[1].acre_id = Format05d(1)

----------------------------------------------------------------------------
\* the nitrogen points inside the half-open box of a cell
PointsInBox(c, n_df) ==
    {p \in DOMAIN n_df : /\ c.x_min <= n_df[p].x /\ n_df[p].x < c.x_max
                          /\ c.y_min <= n_df[p].y /\ n_df[p].y < c.y_max}

\* C24: after the nitrogen merge each cell's mean_nitrogen_lb_ac is the mean
\* rate of exactly the nitrogen points inside its box [x_min, x_max) x
\* [y_min, y_max), null when there is none; a point outside the extent of
\* the surviving cells changes no cell's value.
C24_NitrogenContainment ==
    pc = "merged" =>
        \A i \in DOMAIN grid :
            LET K == PointsInBox(grid_in[i], nitrogen_df)
                rates == Column(nitrogen_df, "nitrogen_lb_ac")
            IN  IF K = {}
                THEN IsNull(grid[i].mean_nitrogen_lb_ac)
                ELSE RatEq(grid[i].mean_nitrogen_lb_ac, Rat(SumOver(K, rates), Cardinality(K)))

----------------------------------------------------------------------------
\* C25: for every non-empty point set (a single point, or points that share
\* their x or their y, included) build_acre_grid returns at least one cell,
\* and build_field_grid does not raise.
C25_NonEmptyGrid ==
    yield_df # <<>> =>
        /\ pc = "built" => grid # <<>>
        /\ pc # "raised"

----------------------------------------------------------------------------
\* the yield point lies in the half-open extent of the point set:
\* min_x <= x < max_x and min_y <= y < max_y
InPointExtent(p) ==
    /\ yield_df[p].x < SetMax(Range(Column(yield_df, "x")))
    /\ yield_df[p].y < SetMax(Range(Column(yield_df, "y")))

CellContains(c, pt) ==
    /\ c.x_min <= pt.x /\ pt.x < c.x_max
    /\ c.y_min <= pt.y /\ pt.y < c.y_max

\* C26: every yield point with min_x <= x < max_x and min_y <= y < max_y is
\* counted by assign_points_to_grid in exactly one cell: its key matches the
\* key of one cell only, that cell is the one cell whose box contains the
\* point, and the cell's n_points counts it.
C26_YieldContainment ==
    pc = "assigned" =>
        LET num_cols == assign_num_cols(grid_in)
            gk == grid_key(grid_in, num_cols)
            pk == point_key(yield_df, grid_in, num_cols)
        IN  \A p \in DOMAIN yield_df :
                InPointExtent(p) =>
                    LET counted == {i \in DOMAIN grid_in : gk[i] = pk[p]}
                        boxes == {i \in DOMAIN grid_in : CellContains(grid_in[i], yield_df[p])}
                    IN  /\ Cardinality(counted) = 1
                        /\ counted = boxes
                        /\ \A i \in counted :
                               grid[i].n_points >=
                                   Cardinality({q \in DOMAIN yield_df :
                                                   /\ InPointExtent(q)
                                                   /\ CellContains(grid_in[i], yield_df[q])})

\* three points on a grid of two columns and two rows; the point (2, 1) lies
\* in the second cell and is the one point counted there
C26_Witness ==
    /\ pc = "assigned"
    /\ Len(grid) = 4
    /\ \E p \in DOMAIN yield_df :
           /\ InPointExtent(p)
           /\ yield_df[p].x = 2 /\ yield_df[p].y = 1
           /\ CellContains(grid[2], yield_df[p])
           /\ grid[2].n_points = 1
    /\ grid[1].n_points = 1

----------------------------------------------------------------------------
\* C27: on a non-empty grid with n_points >= 0 and a fraction in [0, 1] the
\* phantom filter keeps at least one cell: every cell whose n_points is at
\* least the median survives.
C27_NeverEmpties ==
    (pc \in {"filtered", "filtered_twice"} /\ grid_in # <<>>) =>
        /\ \A i \in DOMAIN grid_in : grid_in[i].n_points >= 0
        /\ min_density_percent.num >= 0
        /\ min_density_percent.num <= min_density_percent.den
        /\ grid # <<>>
        /\ \A i \in DOMAIN grid_in :
               2 * grid_in[i].n_points >= TwiceMedian(Column(grid_in, "n_points"))
                   => \E j \in DOMAIN grid : grid[j] = grid_in[i]

\* cells with 0, 1, 7, 1 and 2 points at fraction 1: the median is 1, the
\* empty cell is dropped and the four cells at or above the median survive
C27_Witness ==
    /\ pc = "filtered"
    /\ min_density_percent = [num |-> 1, den |-> 1]
    /\ Column(grid_in, "n_points") = <<0, 1, 7, 1, 2>>
    /\ Column(grid, "n_points") = <<1, 7, 1, 2>>

----------------------------------------------------------------------------
\* every attempt of the rainfall request has failed
WeatherFailed == retry # <<>> /\ retry.result = "None"

\* C28 (as claimed): when every retry of the rainfall request fails,
\* fetch_rainfall returns NaN and add_rainfall_to_grid writes NaN into
\* rainfall_in on every row without changing the rows; build_field_dataset
\* does not raise: until the CSV is written its next step can always be
\* taken, and the rows it exports are the surviving cells with rainfall_in
\* NaN.
C28_WeatherFailure ==
    WeatherFailed =>
        /\ retry.requests = open_meteo_max_retries
        /\ pc # "raised"
        /\ pc # "done" => ENABLED NextDataset
        /\ pc = "rained" =>
               /\ Len(grid) = Len(grid_in)
               /\ \A i \in DOMAIN grid_in :
                      /\ "rainfall_in" \notin DOMAIN grid_in[i]
                      /\ grid[i] = grid_in[i] @@ [rainfall_in |-> NaN]
        /\ pc \in {"located", "soil_loop", "soil_request", "soil_failed", "soil_answer",
                   "soil_rate_limit", "soiled", "nitrogen_done"} =>
               \A i \in DOMAIN grid : IsNull(grid[i].rainfall_in)
        /\ pc = "done" =>
               /\ Len(ret) = 1
               /\ SameCells(ret[1], SurvivingCells)
               /\ \A i \in DOMAIN ret[1] : IsNull(ret[1][i].rainfall_in)

====
